---- MODULE Spec2Model ----
(***************************************************************************)
(* The Bevy Remote Protocol (BRP) engine of crates/bevy_remote: the session *)
(* registry, the per-tick dispatch loop, the name resolution cache and the  *)
(* request handlers, as a state machine.                                    *)
(*                                                                          *)
(* Names are sequences of path segments: <<"a", "Foo">> is the type path    *)
(* a::Foo.  Maps (Rust HashMap) are functions whose DOMAIN is the key set.  *)
(***************************************************************************)
EXTENDS Integers, Sequences, FiniteSets, TLC

VARIABLES
    world,       \* the ECS world: registered components, entities, assets
    cache,       \* RemoteCacheInternal
    sessions,    \* RemoteSessions: the Vec<RemoteSession> behind the RwLock
    nextCh,      \* number of channel pairs created so far by open
    reqQ,        \* request channel of each channel pair
    respQ,       \* response channel of each channel pair
    poisoned,    \* the registry RwLock is poisoned (a writer panicked)
    crashed,     \* the tick thread panicked
    pass,        \* 0: no dispatch pass; k >= 1: the pass is at sessions[k]
    sent,        \* ghost: every request sent, in order; its index is its uid
    delivered,   \* ghost: per channel pair, the responses a transport took
    pending0,    \* ghost: the uids pending in registered sessions at pass start
    lastD,       \* ghost: the last dispatch (request, response, world before)
    lastOp,      \* ghost: the last registry operation
    lastLookup,  \* ghost: the last name lookup or evaluation and its result
    lastInsert,  \* ghost: the insert that gave an entity the value it has
    http,        \* the HTTP transport: its id counter and its handlers
    ends,        \* per channel pair, the channel ends the transport holds
    wasm         \* the WASM transport: its callbacks and its promises

vars == <<world, cache, sessions, nextCh, reqQ, respQ, poisoned, crashed, pass,
          sent, delivered, pending0, lastD, lastOp, lastLookup, lastInsert,
          http, ends, wasm>>

sessionVars == <<sessions, nextCh, reqQ, respQ, poisoned, crashed, pass,
                 sent, delivered, pending0, lastOp, http, ends,
                 wasm>>

(***************************************************************************)
(* Generic helpers                                                         *)
(***************************************************************************)
EmptyMap == [x \in {} |-> 0]

Put(f, k, v) == [x \in DOMAIN f \cup {k} |-> IF x = k THEN v ELSE f[x]]

Range(s) == {s[i] : i \in 1..Len(s)}

Ok(v) == [ok |-> TRUE, val |-> v]

Err(kind, name) == [ok |-> FALSE, err |-> [kind |-> kind, name |-> name]]

(***************************************************************************)
(* The component types known to the program                                *)
(***************************************************************************)
NameAFoo == <<"a", "Foo">>
NameBFoo == <<"b", "Foo">>
NameFoo  == <<"Foo">>
NameCBar == <<"c", "Bar">>
NameBar  == <<"Bar">>
NameHandle == <<"h", "Handle">>
NameMat  == <<"h", "Mat">>
NameNope == <<"Nope">>
NameStar == <<"*">>
NoName   == <<>>

\* One row per component type: its type path, its TypeId (0: none, as for a
\* dynamic component) and what the type registry holds for it.
CompTable == <<
    [name |-> NameAFoo, type_id |-> 1, registered |-> TRUE, from_ptr |-> TRUE,
     default |-> TRUE, reflect_component |-> TRUE, serialize |-> TRUE,
     partial_eq |-> TRUE, reflect_handle |-> FALSE],
    [name |-> NameBFoo, type_id |-> 2, registered |-> TRUE, from_ptr |-> TRUE,
     default |-> TRUE, reflect_component |-> TRUE, serialize |-> TRUE,
     partial_eq |-> TRUE, reflect_handle |-> FALSE],
    [name |-> NameCBar, type_id |-> 3, registered |-> TRUE, from_ptr |-> TRUE,
     default |-> FALSE, reflect_component |-> TRUE, serialize |-> TRUE,
     partial_eq |-> FALSE, reflect_handle |-> FALSE],
    [name |-> NameFoo, type_id |-> 0, registered |-> FALSE, from_ptr |-> FALSE,
     default |-> FALSE, reflect_component |-> FALSE, serialize |-> FALSE,
     partial_eq |-> FALSE, reflect_handle |-> FALSE],
    [name |-> NameHandle, type_id |-> 5, registered |-> TRUE, from_ptr |-> TRUE,
     default |-> TRUE, reflect_component |-> TRUE, serialize |-> TRUE,
     partial_eq |-> TRUE, reflect_handle |-> TRUE],
    \* a second dynamic component created under the name of the first:
    \* init_component_with_descriptor does not look at the name
    [name |-> NameFoo, type_id |-> 0, registered |-> FALSE, from_ptr |-> FALSE,
     default |-> FALSE, reflect_component |-> FALSE, serialize |-> FALSE,
     partial_eq |-> FALSE, reflect_handle |-> FALSE] >>

CompIds == 1..Len(CompTable)

get_short_name(name) == <<name[Len(name)]>>

LongNames == {CompTable[i].name : i \in CompIds}

ShortNames == {get_short_name(CompTable[i].name) : i \in CompIds}

(***************************************************************************)
(* RemoteCache                                                             *)
(***************************************************************************)
EmptyCache ==
    [components_by_name |-> EmptyMap,
     components_by_short_name |-> EmptyMap,
     ambiguous_short_names |-> {}]

missing_components(c, names) ==
    {n \in Range(names) :
        /\ n \notin DOMAIN c.components_by_name
        /\ n \notin DOMAIN c.components_by_short_name}

RECURSIVE scan_components(_, _, _, _)
scan_components(c, comps, k, missing) ==
    IF k > Len(comps) THEN c
    ELSE LET id    == comps[k]
             name  == CompTable[id].name
             short == get_short_name(name)
         IN  IF name \in missing \/ short \in missing
             THEN scan_components(
                    [components_by_name |-> Put(c.components_by_name, name, id),
                     ambiguous_short_names |->
                        IF short \in DOMAIN c.components_by_short_name
                        THEN c.ambiguous_short_names \cup {short}
                        ELSE c.ambiguous_short_names,
                     components_by_short_name |->
                        Put(c.components_by_short_name, short, id)],
                    comps, k + 1, missing)
             ELSE scan_components(c, comps, k + 1, missing)

update_components(c, comps, names) ==
    LET missing == missing_components(c, names)
    IN  IF missing = {} THEN c ELSE scan_components(c, comps, 1, missing)

component_by_name(c, name) ==
    IF name \in DOMAIN c.components_by_name
    THEN Ok(c.components_by_name[name])
    ELSE IF name \in c.ambiguous_short_names
    THEN Err("ComponentAmbiguous", name)
    ELSE IF name \in DOMAIN c.components_by_short_name
    THEN Ok(c.components_by_short_name[name])
    ELSE Err("ComponentNotFound", name)

(***************************************************************************)
(* Wire model (brp.rs)                                                     *)
(***************************************************************************)
Formats == {"Json", "Json5", "Ron"}

\* The text of a serialized value, by what a parser of the tagged format
\* makes of it: "wf" is well formed for the target type and denotes value v;
\* "illtyped" parses but does not fit the target type; "syntax" is not in the
\* format's grammar; "preamble" is text whose leading comment or extension
\* attribute is malformed.
PayloadForms == {"wf", "illtyped", "syntax", "preamble"}

NoBody == [form |-> "none", v |-> 0]

WellFormed(v) == [form |-> "wf", v |-> v]

BrpSerializedData(tag, body) == [tag |-> tag, body |-> body]

DataDefault == BrpSerializedData("Default", NoBody)

DataUnserializable == BrpSerializedData("Unserializable", NoBody)

\* Rust's Default::default() of a component or handle value
DefaultValue == 0

\* A panic unwinds through every `?` like an error that no caller handles.
Panic == Err("PANIC", NoName)

IsPanic(r) == ~r.ok /\ r.err.kind = "PANIC"

\* BrpPredicate
PredAlways == [op |-> "Always", args |-> <<>>, map |-> <<>>]

PredAll(ps) == [op |-> "All", args |-> ps, map |-> <<>>]

PredAny(ps) == [op |-> "Any", args |-> ps, map |-> <<>>]

PredNot(p) == [op |-> "Not", args |-> <<p>>, map |-> <<>>]

\* the map is given as the sequence of its entries in iteration order
PredPartialEq(m) == [op |-> "PartialEq", args |-> <<>>, map |-> m]

BrpQueryData(components, optional, has) ==
    [components |-> components, optional |-> optional, has |-> has]

BrpQueryFilter(with, without, when) ==
    [with |-> with, without |-> without, when |-> when]

NoData == BrpQueryData(<<>>, <<>>, <<>>)

NoFilter == BrpQueryFilter(<<>>, <<>>, PredAlways)

\* BrpRequest: every request carries every field, the unused ones empty
BrpRequest(id, kind, entity, data, filter, components, name, handle, asset) ==
    [id |-> id, kind |-> kind, entity |-> entity, data |-> data,
     filter |-> filter, components |-> components, name |-> name,
     handle |-> handle, asset |-> asset]

SimpleRequest(id, kind) ==
    BrpRequest(id, kind, 0, NoData, NoFilter, <<>>, NoName, DataDefault,
               DataDefault)

GetEntity(id, entity, data, filter) ==
    BrpRequest(id, "GetEntity", entity, data, filter, <<>>, NoName,
               DataDefault, DataDefault)

QueryEntities(id, data, filter) ==
    BrpRequest(id, "QueryEntities", 0, data, filter, <<>>, NoName,
               DataDefault, DataDefault)

InsertComponent(id, entity, components) ==
    BrpRequest(id, "InsertComponent", entity, NoData, NoFilter, components,
               NoName, DataDefault, DataDefault)

GetAsset(id, name, handle) ==
    BrpRequest(id, "GetAsset", 0, NoData, NoFilter, <<>>, name, handle,
               DataDefault)

InsertAsset(id, name, handle, asset) ==
    BrpRequest(id, "InsertAsset", 0, NoData, NoFilter, <<>>, name, handle,
               asset)

UnimplementedKinds ==
    {"SpawnEntity", "DestroyEntity", "RemoveComponent", "ReparentEntity",
     "PollEntities"}

RequestKinds ==
    {"Ping", "GetEntity", "QueryEntities", "InsertComponent", "GetAsset",
     "InsertAsset"} \cup UnimplementedKinds

\* BrpResponse::new
BrpResponse_new(id, kind, body) ==
    [id |-> id, response |-> [kind |-> kind, body |-> body]]

\* variant: an error response that does not carry the request's id
from_error_without_id(id, error) ==
    [id |-> 0, response |-> [kind |-> "Error", body |-> error]]

\* BrpResponse::from_error
BrpResponse_from_error(id, error) ==
    [id |-> id, response |-> [kind |-> "Error", body |-> error]]

BrpQueryResult(entity, components, optional, has) ==
    [entity |-> entity, components |-> components, optional |-> optional,
     has |-> has]

RECURSIVE BrpPredicate_iter(_)
RECURSIVE iter_children(_, _)
iter_children(ps, k) ==
    IF k > Len(ps) THEN <<>>
    ELSE BrpPredicate_iter(ps[k]) \o iter_children(ps, k + 1)

BrpPredicate_iter(p) ==
    CASE p.op = "Always" -> <<>>
      [] p.op \in {"All", "Any", "Not"} -> iter_children(p.args, 1)
      [] p.op = "PartialEq" -> [i \in 1..Len(p.map) |-> p.map[i][1]]

(***************************************************************************)
(* Serialization codec (lib.rs, data.rs)                                   *)
(***************************************************************************)
\* ReflectSerializer through the session format's to_string
try_from_reflect(value, row, fmt) ==
    IF ~row.serialize THEN Err("Serialization", NoName)
    ELSE Ok(BrpSerializedData(fmt, WellFormed(value)))

\* get_by_id of an entity reference: the component is there and the reference
\* has read access to it.
get_by_id(w, e, access, cid) ==
    cid \in DOMAIN w.ents[e] /\ cid \in access

serialize_component(w, e, access, component_name, cid, fmt) ==
    LET row == CompTable[cid]
    IN  IF row.type_id = 0 THEN Err("MissingTypeId", component_name)
        ELSE IF ~row.registered
        THEN Err("MissingTypeRegistration", component_name)
        ELSE IF ~row.from_ptr THEN Err("MissingReflect", component_name)
        ELSE IF ~get_by_id(w, e, access, cid)
        THEN Err("ComponentInvalidAccess", component_name)
        ELSE try_from_reflect(w.ents[e][cid], row, fmt)

\* Deserializer::from_str of each format, then TypedReflectDeserializer.
\* serde_json builds its deserializer without reading; json5 parses the whole
\* text in from_str and ron reads the preamble there, and the code unwraps
\* both.
\* variant: a payload whose tag is not the session's format is rejected
deserialize_strict(row, input, fmt, component_name) ==
    IF input.tag = fmt /\ input.body.form = "wf" THEN Ok(input.body.v)
    ELSE Err("Deserialization", component_name)

deserialize_component(row, input, fmt, component_name) ==
    CASE input.tag = "Json" ->
            IF input.body.form = "wf" THEN Ok(input.body.v)
            ELSE Err("Deserialization", component_name)
      [] input.tag = "Json5" ->
            IF input.body.form \in {"syntax", "preamble"} THEN Panic
            ELSE IF input.body.form = "wf" THEN Ok(input.body.v)
            ELSE Err("Deserialization", component_name)
      [] input.tag = "Ron" ->
            IF input.body.form = "preamble" THEN Panic
            ELSE IF input.body.form = "wf" THEN Ok(input.body.v)
            ELSE Err("Deserialization", component_name)
      [] input.tag = "Default" ->
            IF ~row.default THEN Err("MissingDefault", component_name)
            ELSE Ok(DefaultValue)
      [] input.tag = "Unserializable" ->
            Err("Deserialization", component_name)

\* the entity with component cid set to value
insert_value(w, e, cid, value) ==
    [w EXCEPT !.ents = Put(w.ents, e, Put(w.ents[e], cid, value))]

\* Result of the world after the insert
insert_component(w, e, component_name, cid, input, fmt) ==
    LET row == CompTable[cid]
    IN  IF row.type_id = 0 THEN Err("MissingTypeId", component_name)
        ELSE IF ~row.registered
        THEN Err("MissingTypeRegistration", component_name)
        ELSE LET reflected ==
                    deserialize_component(row, input, fmt, component_name)
             IN  IF ~reflected.ok THEN reflected
                 ELSE IF ~row.default
                 THEN Err("MissingDefault", component_name)
                 ELSE IF ~row.reflect_component
                 THEN Err("MissingReflect", component_name)
                 ELSE Ok(insert_value(w, e, cid, reflected.val))

partial_eq_component(w, e, access, component_name, cid, input, fmt) ==
    LET row == CompTable[cid]
    IN  IF row.type_id = 0 THEN Err("MissingTypeId", component_name)
        ELSE IF ~row.registered
        THEN Err("MissingTypeRegistration", component_name)
        ELSE IF ~row.from_ptr THEN Err("MissingReflect", component_name)
        ELSE LET reflected ==
                    deserialize_component(row, input, fmt, component_name)
             IN  IF ~reflected.ok THEN reflected
                 ELSE IF ~get_by_id(w, e, access, cid) THEN Ok(FALSE)
                 ELSE IF ~row.partial_eq
                 THEN Err("MissingPartialEq", row.name)
                 ELSE Ok(reflected.val = w.ents[e][cid])

(***************************************************************************)
(* Predicate evaluation (lib.rs process_brp_predicate)                     *)
(***************************************************************************)
RECURSIVE process_brp_predicate(_, _, _, _, _, _)
RECURSIVE predicate_all(_, _, _, _, _, _, _)
RECURSIVE predicate_any(_, _, _, _, _, _, _)
RECURSIVE predicate_partial_eq(_, _, _, _, _, _, _)

\* variant: All evaluates every child before it combines their values
RECURSIVE all_eager(_, _, _, _, _, _, _)
all_eager(w, c, fmt, e, access, ps, k) ==
    IF k > Len(ps) THEN Ok(TRUE)
    ELSE LET r == process_brp_predicate(w, c, fmt, e, access, ps[k])
             rest == all_eager(w, c, fmt, e, access, ps, k + 1)
         IN  IF ~r.ok THEN r
             ELSE IF ~rest.ok THEN rest
             ELSE Ok(r.val /\ rest.val)

predicate_all(w, c, fmt, e, access, ps, k) ==
    IF k > Len(ps) THEN Ok(TRUE)
    ELSE LET r == process_brp_predicate(w, c, fmt, e, access, ps[k])
         IN  IF ~r.ok THEN r
             ELSE IF ~r.val THEN Ok(FALSE)
             ELSE predicate_all(w, c, fmt, e, access, ps, k + 1)

\* variant: Any evaluated with the loop of All
any_as_all(w, c, fmt, e, access, ps, k) ==
    predicate_all(w, c, fmt, e, access, ps, k)

predicate_any(w, c, fmt, e, access, ps, k) ==
    IF k > Len(ps) THEN Ok(FALSE)
    ELSE LET r == process_brp_predicate(w, c, fmt, e, access, ps[k])
         IN  IF ~r.ok THEN r
             ELSE IF r.val THEN Ok(TRUE)
             ELSE predicate_any(w, c, fmt, e, access, ps, k + 1)

predicate_partial_eq(w, c, fmt, e, access, m, k) ==
    IF k > Len(m) THEN Ok(TRUE)
    ELSE LET component == component_by_name(c, m[k][1])
         IN  IF ~component.ok THEN component
             ELSE LET r == partial_eq_component(w, e, access, m[k][1],
                                                component.val, m[k][2], fmt)
                  IN  IF ~r.ok THEN r
                      ELSE IF ~r.val THEN Ok(FALSE)
                      ELSE predicate_partial_eq(w, c, fmt, e, access, m, k + 1)

process_brp_predicate(w, c, fmt, e, access, p) ==
    CASE p.op = "Always" -> Ok(TRUE)
      [] p.op = "All" -> predicate_all(w, c, fmt, e, access, p.args, 1)
      [] p.op = "Any" -> predicate_any(w, c, fmt, e, access, p.args, 1)
      [] p.op = "Not" ->
            LET r == process_brp_predicate(w, c, fmt, e, access, p.args[1])
            IN  IF ~r.ok THEN r ELSE Ok(~r.val)
      [] p.op = "PartialEq" ->
            predicate_partial_eq(w, c, fmt, e, access, p.map, 1)

(***************************************************************************)
(* Get and query (lib.rs process_brp_get_or_query_request)                 *)
(***************************************************************************)
\* variant: wildcard mode whenever the token occurs among the components
fetch_all_anywhere(data) == NameStar \in Range(data.components)

fetch_all_components(data) ==
    Len(data.components) = 1 /\ data.components[1] = NameStar

\* every name of the request, as chained for the cache update
query_names(data, filter) ==
    data.components \o data.optional \o data.has \o filter.with
        \o filter.without \o BrpPredicate_iter(filter.when)

\* the names the query builder resolves, in the order it resolves them
builder_names(data, filter) ==
    (IF fetch_all_components(data) THEN <<>> ELSE data.components)
        \o data.optional \o data.has \o filter.with \o filter.without
        \o BrpPredicate_iter(filter.when)

\* the first resolution error among names, or Ok
RECURSIVE resolve_names(_, _, _)
resolve_names(c, names, k) ==
    IF k > Len(names) THEN Ok(TRUE)
    ELSE LET r == component_by_name(c, names[k])
         IN  IF ~r.ok THEN r ELSE resolve_names(c, names, k + 1)

ids_of(c, names) == {component_by_name(c, n).val : n \in Range(names)}

\* the built query's structural filter: ref_id, with_id, without_id
query_matches(w, e, required, with, without) ==
    /\ e \in DOMAIN w.ents
    /\ (required \cup with) \subseteq DOMAIN w.ents[e]
    /\ without \cap DOMAIN w.ents[e] = {}

\* a finite set of entity ids as the sequence the query iterates
RECURSIVE entity_order(_)
entity_order(es) ==
    IF es = {} THEN <<>>
    ELSE LET m == CHOOSE x \in es : \A y \in es : x <= y
         IN  <<m>> \o entity_order(es \ {m})

RECURSIVE result_components(_, _, _, _, _, _, _, _)
result_components(w, c, fmt, e, access, names, k, acc) ==
    IF k > Len(names) THEN Ok(acc)
    ELSE LET component == component_by_name(c, names[k])
         IN  IF ~component.ok THEN component
             ELSE LET s == serialize_component(w, e, access, names[k],
                                               component.val, fmt)
                  IN  IF ~s.ok THEN s
                      ELSE result_components(w, c, fmt, e, access, names,
                                             k + 1, Put(acc, names[k], s.val))

\* Option<BrpSerializedData>: <<>> is None, <<d>> is Some(d)
RECURSIVE result_optional(_, _, _, _, _, _, _, _)
result_optional(w, c, fmt, e, access, names, k, acc) ==
    IF k > Len(names) THEN Ok(acc)
    ELSE LET component == component_by_name(c, names[k])
         IN  IF ~component.ok THEN component
             ELSE IF component.val \notin DOMAIN w.ents[e]
             THEN result_optional(w, c, fmt, e, access, names, k + 1,
                                  Put(acc, names[k], <<>>))
             ELSE LET s == serialize_component(w, e, access, names[k],
                                               component.val, fmt)
                  IN  IF ~s.ok THEN s
                      ELSE result_optional(w, c, fmt, e, access, names, k + 1,
                                           Put(acc, names[k], <<s.val>>))

RECURSIVE result_has(_, _, _, _, _, _)
result_has(w, c, e, names, k, acc) ==
    IF k > Len(names) THEN Ok(acc)
    ELSE LET component == component_by_name(c, names[k])
         IN  IF ~component.ok THEN component
             ELSE result_has(w, c, e, names, k + 1,
                             Put(acc, names[k],
                                 component.val \in DOMAIN w.ents[e]))

\* one candidate of the loop: Ok(<<>>) when the predicate skips it,
\* Ok(<<result>>) when it is kept, or the error that ends the request
query_entity(w, c, fmt, e, access, data, filter) ==
    LET when == process_brp_predicate(w, c, fmt, e, access, filter.when)
    IN  IF ~when.ok THEN when
        ELSE IF ~when.val THEN Ok(<<>>)
        ELSE LET components ==
                    IF fetch_all_components(data) THEN Ok(EmptyMap)
                    ELSE result_components(w, c, fmt, e, access,
                                           data.components, 1, EmptyMap)
             IN  IF ~components.ok THEN components
                 ELSE LET optional ==
                             result_optional(w, c, fmt, e, access,
                                             data.optional, 1, EmptyMap)
                      IN  IF ~optional.ok THEN optional
                          ELSE LET has == result_has(w, c, e, data.has, 1,
                                                     EmptyMap)
                               IN  IF ~has.ok THEN has
                                   ELSE Ok(<<BrpQueryResult(e, components.val,
                                               optional.val, has.val)>>)

\* variant: a candidate that raises an error is left out of the results
RECURSIVE query_entities_skipping(_, _, _, _, _, _, _, _)
query_entities_skipping(w, c, fmt, es, k, access, data, filter) ==
    IF k > Len(es) THEN Ok(<<>>)
    ELSE LET r == query_entity(w, c, fmt, es[k], access, data, filter)
             rest == query_entities_skipping(w, c, fmt, es, k + 1, access,
                                             data, filter)
         IN  IF ~r.ok THEN rest
             ELSE IF ~rest.ok THEN rest ELSE Ok(r.val \o rest.val)

RECURSIVE query_entities(_, _, _, _, _, _, _, _)
query_entities(w, c, fmt, es, k, access, data, filter) ==
    IF k > Len(es) THEN Ok(<<>>)
    ELSE LET r == query_entity(w, c, fmt, es[k], access, data, filter)
         IN  IF ~r.ok THEN r
             ELSE LET rest == query_entities(w, c, fmt, es, k + 1, access,
                                             data, filter)
                  IN  IF ~rest.ok THEN rest ELSE Ok(r.val \o rest.val)

\* wildcard mode: every component of the entity, in registration order
RECURSIVE fetch_all(_, _, _, _, _)
fetch_all(w, fmt, e, k, acc) ==
    IF k > Len(w.components) THEN Ok(acc)
    ELSE LET cid  == w.components[k]
             name == CompTable[cid].name
         IN  IF cid \notin DOMAIN w.ents[e]
             THEN fetch_all(w, fmt, e, k + 1, acc)
             ELSE LET s == serialize_component(w, e, CompIds, name, cid, fmt)
                  IN  IF s.ok
                      THEN fetch_all(w, fmt, e, k + 1, Put(acc, name, s.val))
                      ELSE IF s.err.kind \in
                                {"MissingTypeRegistration", "MissingReflect",
                                 "MissingTypeId", "Serialization"}
                      THEN fetch_all(w, fmt, e, k + 1,
                                     Put(acc, name, DataUnserializable))
                      ELSE s

RECURSIVE fetch_all_results(_, _, _, _)
fetch_all_results(w, fmt, results, k) ==
    IF k > Len(results) THEN Ok(<<>>)
    ELSE LET r == fetch_all(w, fmt, results[k].entity, 1,
                            results[k].components)
         IN  IF ~r.ok THEN r
             ELSE LET rest == fetch_all_results(w, fmt, results, k + 1)
                  IN  IF ~rest.ok THEN rest
                      ELSE Ok(<<[results[k] EXCEPT !.components = r.val]>>
                              \o rest.val)

\* entity = 0 stands for None.  A handler returns the Result of the response
\* together with the world and the cache it leaves.
Outcome(res, w, c) == [res |-> res, world |-> w, cache |-> c]

\* the end of the handler: the results, filled in wildcard mode, as the
\* QueryEntities response
query_response(w, c, id, filled) ==
    IF ~filled.ok THEN Outcome(filled, w, c)
    ELSE Outcome(Ok(BrpResponse_new(id, "QueryEntities", filled.val)), w, c)

query_fill(w, c, fmt, id, data, results) ==
    IF ~results.ok THEN Outcome(results, w, c)
    ELSE query_response(w, c, id,
            IF fetch_all_components(data)
            THEN fetch_all_results(w, fmt, results.val, 1)
            ELSE results)

\* query.get(world, entity) or query.iter(world) of the built query
query_candidates(w, entity, required, with, without) ==
    IF entity # 0
    THEN IF query_matches(w, entity, required, with, without)
         THEN <<entity>> ELSE <<>>
    ELSE entity_order({e \in DOMAIN w.ents :
            query_matches(w, e, required, with, without)})

\* the query builder over the resolved names, and the loop over its entities
query_build(w, c, fmt, id, data, filter, entity, required) ==
    query_fill(w, c, fmt, id, data,
        query_entities(w, c, fmt,
            query_candidates(w, entity, required, ids_of(c, filter.with),
                             ids_of(c, filter.without)),
            1,
            required \cup ids_of(c, data.optional) \cup ids_of(c, data.has)
                \cup ids_of(c, BrpPredicate_iter(filter.when)),
            data, filter))

query_resolve(w, c, fmt, id, data, filter, entity, resolved) ==
    IF ~resolved.ok THEN Outcome(resolved, w, c)
    ELSE query_build(w, c, fmt, id, data, filter, entity,
            IF fetch_all_components(data) THEN {}
            ELSE ids_of(c, data.components))

query_cached(w, c, fmt, id, data, filter, entity) ==
    query_resolve(w, c, fmt, id, data, filter, entity,
                  resolve_names(c, builder_names(data, filter), 1))

process_brp_get_or_query_request(w, c0, fmt, id, data, filter, entity) ==
    query_cached(w, update_components(c0, w.components,
                                      query_names(data, filter)),
                 fmt, id, data, filter, entity)

process_brp_query_request(w, c, fmt, id, data, filter) ==
    process_brp_get_or_query_request(w, c, fmt, id, data, filter, 0)

\* the match of process_brp_get_request on the query's outcome
get_response(id, o) ==
    IF o.res.ok /\ o.res.val.response.kind = "QueryEntities"
    THEN IF Len(o.res.val.response.body) # 1
         THEN Outcome(Err("EntityNotFound", NoName), o.world, o.cache)
         ELSE Outcome(Ok(BrpResponse_new(id, "GetEntity",
                            o.res.val.response.body[1])),
                      o.world, o.cache)
    ELSE o

\* variant: the query response passed on as it is
get_request_unconverted(w, c, fmt, id, data, filter, entity) ==
    process_brp_get_or_query_request(w, c, fmt, id, data, filter, entity)

\* variant: the first result of the query over every entity
get_request_first_of_all(w, c, fmt, id, data, filter, entity) ==
    LET o == process_brp_get_or_query_request(w, c, fmt, id, data, filter, 0)
    IN  IF o.res.ok
        THEN IF Len(o.res.val.response.body) = 0
             THEN Outcome(Err("EntityNotFound", NoName), o.world, o.cache)
             ELSE Outcome(Ok(BrpResponse_new(id, "GetEntity",
                                o.res.val.response.body[1])),
                          o.world, o.cache)
        ELSE o

process_brp_get_request(w, c, fmt, id, data, filter, entity) ==
    get_response(id, process_brp_get_or_query_request(w, c, fmt, id, data,
                                                      filter, entity))

(***************************************************************************)
(* Insert (lib.rs process_brp_insert_request)                              *)
(***************************************************************************)
\* components is the request's map as the sequence of its entries in the
\* order the HashMap iterates them; a failing entry ends the loop and leaves
\* the entries inserted before it.
RECURSIVE insert_components(_, _, _, _, _, _)
insert_components(w, c, fmt, e, components, k) ==
    IF k > Len(components) THEN Outcome(Ok(TRUE), w, c)
    ELSE LET component_info == component_by_name(c, components[k][1])
         IN  IF ~component_info.ok THEN Outcome(component_info, w, c)
             ELSE LET r == insert_component(w, e, components[k][1],
                                            component_info.val,
                                            components[k][2], fmt)
                  IN  IF ~r.ok THEN Outcome(r, w, c)
                      ELSE insert_components(r.val, c, fmt, e, components,
                                             k + 1)

process_brp_insert_request(w, c0, fmt, id, entity, components) ==
    LET c == update_components(c0, w.components,
                               [i \in 1..Len(components) |-> components[i][1]])
    IN  IF entity \notin DOMAIN w.ents
        THEN Outcome(Err("EntityNotFound", NoName), w, c)
        ELSE LET o == insert_components(w, c, fmt, entity, components, 1)
             IN  IF ~o.res.ok THEN o
                 ELSE Outcome(Ok(BrpResponse_new(id, "Ok", <<>>)), o.world,
                              o.cache)

(***************************************************************************)
(* Assets (session.rs, data.rs)                                            *)
(***************************************************************************)
\* the registration of the asset type a handle type points to
AssetRow ==
    [name |-> NameMat, registered |-> TRUE, reflect_asset |-> TRUE,
     default |-> TRUE, serialize |-> TRUE]

\* TypeRegistry::get_with_type_path: the row of that type path, 0 for None
get_with_type_path(name) ==
    IF \E i \in CompIds : CompTable[i].name = name /\ CompTable[i].registered
    THEN CHOOSE i \in CompIds : CompTable[i].name = name
    ELSE 0

\* the checks both asset handlers make up to the untyped handle:
\* Ok(handle value) or the error
asset_handle(name, handle, fmt) ==
    LET tr == get_with_type_path(name)
    IN  IF tr = 0 THEN Err("MissingTypeRegistration", name)
        ELSE IF ~CompTable[tr].reflect_handle THEN Err("AssetNotFound", name)
        ELSE IF ~AssetRow.registered
        THEN Err("MissingTypeRegistration", name)
        ELSE IF ~AssetRow.reflect_asset
        THEN Err("MissingTypeRegistration", name)
        ELSE LET reflected ==
                    deserialize_component(CompTable[tr], handle, fmt, name)
             IN  IF ~reflected.ok THEN reflected
                 ELSE IF ~CompTable[tr].default
                 THEN Err("MissingDefault", name)
                 ELSE Ok(reflected.val)

try_from_asset(w, name, handle, fmt) ==
    LET h == asset_handle(name, handle, fmt)
    IN  IF ~h.ok THEN h
        ELSE IF h.val \notin DOMAIN w.assets THEN Err("AssetNotFound", name)
        ELSE try_from_reflect(w.assets[h.val], AssetRow, fmt)

\* variant: a GetAsset handler that takes the asset out of the world
get_asset_request_taking(w, c, fmt, id, name, handle) ==
    LET output == try_from_asset(w, name, handle, fmt)
        h == asset_handle(name, handle, fmt)
    IN  IF ~output.ok THEN Outcome(output, w, c)
        ELSE Outcome(Ok(BrpResponse_new(id, "GetAsset",
                            [name |-> name, handle |-> handle,
                             asset |-> output.val])),
                     [w EXCEPT !.assets =
                        [x \in DOMAIN w.assets \ {h.val} |-> w.assets[x]]],
                     c)

process_get_asset_request(w, c, fmt, id, name, handle) ==
    LET output == try_from_asset(w, name, handle, fmt)
    IN  IF ~output.ok THEN Outcome(output, w, c)
        ELSE Outcome(Ok(BrpResponse_new(id, "GetAsset",
                            [name |-> name, handle |-> handle,
                             asset |-> output.val])), w, c)

process_insert_asset_request(w, c, fmt, id, name, handle, data) ==
    LET h == asset_handle(name, handle, fmt)
    IN  IF ~h.ok THEN Outcome(h, w, c)
        ELSE LET asset_reflected ==
                    deserialize_component(AssetRow, data, fmt, AssetRow.name)
             IN  IF ~asset_reflected.ok THEN Outcome(asset_reflected, w, c)
                 ELSE Outcome(Ok(BrpResponse_new(id, "Ok", <<>>)),
                              [w EXCEPT !.assets =
                                  Put(w.assets, h.val, asset_reflected.val)],
                              c)

(***************************************************************************)
(* Dispatch of one request (session.rs process_request)                    *)
(***************************************************************************)
\* variant: an unhandled kind answered as a success
unimplemented_as_ok(w, c) == Outcome(Ok(BrpResponse_new(0, "Ok", <<>>)), w, c)

\* the arm of process_request for every kind it does not handle
unimplemented_request(w, c) == Outcome(Err("Unimplemented", NoName), w, c)

process_request(w, c, fmt, request) ==
    CASE request.kind = "Ping" ->
            Outcome(Ok(BrpResponse_new(request.id, "Ok", <<>>)), w, c)
      [] request.kind = "GetEntity" ->
            process_brp_get_request(w, c, fmt, request.id, request.data,
                                    request.filter, request.entity)
      [] request.kind = "QueryEntities" ->
            process_brp_query_request(w, c, fmt, request.id, request.data,
                                      request.filter)
      [] request.kind = "InsertComponent" ->
            process_brp_insert_request(w, c, fmt, request.id, request.entity,
                                       request.components)
      [] request.kind = "GetAsset" ->
            process_get_asset_request(w, c, fmt, request.id, request.name,
                                      request.handle)
      [] request.kind = "InsertAsset" ->
            process_insert_asset_request(w, c, fmt, request.id, request.name,
                                         request.handle, request.asset)
      [] OTHER -> unimplemented_request(w, c)

\* the body of the drain loop for one request: the response to send, or a
\* panic of the tick thread
respond(request, o) ==
    IF o.res.ok THEN o.res.val
    ELSE BrpResponse_from_error(request.id, o.res.err)

(***************************************************************************)
(* Bounds                                                                  *)
(***************************************************************************)
MaxCh == 2          \* channel pairs open may create

MaxSubmit == 3      \* requests transports may send in all

MaxBatch == 2       \* names in one cache lookup batch

(***************************************************************************)
(* Initial values shared by the specifications                             *)
(***************************************************************************)
EmptyWorld == [components |-> <<>>, ents |-> EmptyMap, assets |-> EmptyMap]

NoLookup == [name |-> NoName, res |-> Ok(0)]

NoOp == [op |-> "none", label |-> "", ok |-> TRUE, before |-> <<>>]

\* every component type registered; entity 1 with a::Foo, c::Bar and the
\* two dynamic components named Foo, entity 2 with b::Foo; one asset behind
\* handle 0
World0 ==
    [components |-> [i \in CompIds |-> i],
     ents |-> [e \in {1, 2} |->
                IF e = 1 THEN [cid \in {1, 3, 4, 6} |-> IF cid = 1 THEN 1 ELSE 0]
                ELSE [cid \in {2} |-> 0]],
     assets |-> [h \in {0} |-> 1]]

NoDispatch ==
    [ch |-> 0, request |-> SimpleRequest(0, "none"),
     response |-> BrpResponse_new(0, "none", <<>>), panicked |-> FALSE,
     fmt |-> "Json", cache |-> EmptyCache,
     before |-> EmptyWorld, after |-> EmptyWorld]

NoInsert == [e |-> 0, name |-> NoName, cid |-> 0, v |-> 0]

\* number of handler threads of the HTTP server that the runs follow
Handlers == {1, 2}

HandlerIdle ==
    [pc |-> "idle", id |-> 0, request |-> SimpleRequest(0, "none"),
     uid |-> 0, late |-> FALSE, got |-> 0,
     returned |-> BrpResponse_new(0, "none", <<>>)]

\* HttpRemotePlugin::build: AtomicU64::new(0), no request in a handler
HttpIdle ==
    [request_id |-> 0, handlers |-> [i \in Handlers |-> HandlerIdle],
     timed_out |-> {}]

\* REQUEST_PROMISE_CALLBACKS empty and no promise made
WasmIdle == [callbacks |-> EmptyMap, promises |-> <<>>, discarded |-> 0]

\* the four channel ends of a session: the fields of RemoteSession
AllEnds ==
    {"request_sender", "request_receiver",
     "response_sender", "response_receiver"}

\* no transport holds an end of any channel pair
NoEnds == [ch \in 1..MaxCh |-> {}]

\* the ends of the channel pairs 1..n are all held by their transports
HeldEnds(n) == [ch \in 1..MaxCh |-> IF ch <= n THEN AllEnds ELSE {}]

SessionsIdle ==
    /\ sessions = <<>>
    /\ nextCh = 0
    /\ reqQ = [ch \in 1..MaxCh |-> <<>>]
    /\ respQ = [ch \in 1..MaxCh |-> <<>>]
    /\ poisoned = FALSE
    /\ crashed = FALSE
    /\ pass = 0
    /\ sent = <<>>
    /\ delivered = [ch \in 1..MaxCh |-> <<>>]
    /\ pending0 = {}
    /\ lastOp = NoOp
    /\ http = HttpIdle
    /\ wasm = WasmIdle
    /\ ends = NoEnds

(***************************************************************************)
(* SpecCache: the name resolution cache against a growing registry         *)
(***************************************************************************)
\* the component types and the names the cache runs are about
CacheScope == {i \in CompIds : get_short_name(CompTable[i].name) = NameFoo}

CacheNames == {NameAFoo, NameBFoo, NameFoo, NameNope}

NameBatches ==
    UNION {[1..n -> CacheNames] : n \in 1..MaxBatch}

InitCache ==
    /\ world = EmptyWorld
    /\ cache = EmptyCache
    /\ lastLookup = NoLookup
    /\ lastD = NoDispatch
    /\ lastInsert = NoInsert
    /\ SessionsIdle

\* World::init_component: the world registers another component type
RegisterComponent(i) ==
    /\ i \notin Range(world.components)
    /\ world' = [world EXCEPT !.components = Append(@, i)]
    /\ lastLookup' = NoLookup
    /\ UNCHANGED <<cache, lastD, sessionVars, lastInsert>>

\* a handler's cache update for the names of its request, then the lookup of
\* one of them
CacheLookup(names, k) ==
    /\ cache' = update_components(cache, world.components, names)
    /\ lastLookup' = [name |-> names[k],
                      res |-> component_by_name(cache', names[k])]
    /\ UNCHANGED <<world, lastD, sessionVars, lastInsert>>

NextCache ==
    \/ \E i \in CacheScope : RegisterComponent(i)
    \/ \E names \in NameBatches : \E k \in 1..Len(names) :
            CacheLookup(names, k)

SpecCache == InitCache /\ [][NextCache]_vars

\* the registered types whose long name, or whose short name, is n
LongMatches(n) ==
    {i \in Range(world.components) : CompTable[i].name = n}

ShortMatches(n) ==
    {i \in Range(world.components) : get_short_name(CompTable[i].name) = n}

\* C8: with two registered types of different long names and the same short
\* name, whatever was looked up or registered before, resolving the short
\* name gives ComponentAmbiguous and resolving either long name gives that
\* type's descriptor.
C8_CollidingShortNameIsAmbiguous ==
    LET n == lastLookup.name
    IN  lastLookup # NoLookup =>
          /\ (Cardinality(ShortMatches(n)) >= 2 /\ LongMatches(n) = {})
                => lastLookup.res = Err("ComponentAmbiguous", n)
          /\ \A i \in LongMatches(n) :
                Cardinality(ShortMatches(get_short_name(n))) >= 2
                    => lastLookup.res = Ok(i)

\* what resolution of n must give by the precedence: long path, then
\* ambiguous short name, then unique short name, then not found
ResolveByPrecedence(n) ==
    IF LongMatches(n) # {} THEN Ok(CHOOSE i \in LongMatches(n) : TRUE)
    ELSE IF Cardinality(ShortMatches(n)) >= 2
    THEN Err("ComponentAmbiguous", n)
    ELSE IF Cardinality(ShortMatches(n)) = 1
    THEN Ok(CHOOSE i \in ShortMatches(n) : TRUE)
    ELSE Err("ComponentNotFound", n)

\* C9: every lookup gives what the precedence gives over the registered
\* types: a registered long path wins, else a shared short name is
\* ComponentAmbiguous, else a unique short name resolves, else
\* ComponentNotFound.
C9_ResolutionPrecedence ==
    lastLookup # NoLookup =>
        lastLookup.res = ResolveByPrecedence(lastLookup.name)

(***************************************************************************)
(* Spec: the session registry, the channels and the per-tick dispatch pass *)
(***************************************************************************)
Labels == {"A", "B"}

SessionFormats == {"Json"}

JsonValue(v) == BrpSerializedData("Json", WellFormed(v))

\* the requests the transports of this specification send: one per handler
\* and per way a request ends (success, error, unimplemented, panic)
SessionRequests ==
    { SimpleRequest(1, "Ping"),
      GetEntity(2, 3, NoData, NoFilter),
      InsertComponent(3, 2, << <<NameAFoo, JsonValue(1)>> >>),
      InsertComponent(4, 1,
          << <<NameAFoo, BrpSerializedData("Json5", [form |-> "syntax", v |-> 0])>> >>) }

RemoteSession(label, fmt, ch) ==
    [label |-> label, serialization_format |-> fmt, ch |-> ch]

SessionLabels(ss) == {ss[i].label : i \in 1..Len(ss)}

Registered(ch) == \E i \in 1..Len(sessions) : sessions[i].ch = ch

\* variant: the registered session keeps only the ends the loop uses
worker_ends(ss, ch) ==
    IF \E i \in 1..Len(ss) : ss[i].ch = ch
    THEN {"request_receiver", "response_sender"} ELSE {}

\* the ends of channel pair ch that the registry holds: open pushes a clone
\* of the whole RemoteSession, with its two senders and its two receivers
registry_ends(ss, ch) ==
    IF \E i \in 1..Len(ss) : ss[i].ch = ch THEN AllEnds ELSE {}

\* Receiver::try_recv gives Disconnected: the channel is empty and no sender
\* of it is left
try_recv_disconnected(ss, held, q, ch) ==
    /\ q[ch] = <<>>
    /\ "request_sender" \notin (held[ch] \cup registry_ends(ss, ch))

\* Sender::send gives an error: no receiver of the channel is left
send_disconnected(ss, held, ch) ==
    "response_receiver" \notin (held[ch] \cup registry_ends(ss, ch))

\* variant: open without the label check
open_session_unchecked(ss, label, fmt, ch) ==
    Ok(Append(ss, [label |-> label, serialization_format |-> fmt, ch |-> ch]))

\* the body of open under the write lock: the registry with the session
\* pushed, or the panic of assert_ne!
open_session(ss, label, fmt, ch) ==
    IF \E i \in 1..Len(ss) : ss[i].label = label THEN Panic
    ELSE Ok(Append(ss, RemoteSession(label, fmt, ch)))

\* variant: close removes the session registered last
close_newest(ss, label) ==
    IF ~\E i \in 1..Len(ss) : ss[i].label = label THEN Panic
    ELSE Ok(SubSeq(ss, 1, Len(ss) - 1))

\* the body of close under the write lock: position(..).unwrap(), remove
close_session(ss, label) ==
    IF ~\E i \in 1..Len(ss) : ss[i].label = label THEN Panic
    ELSE LET index == CHOOSE i \in 1..Len(ss) :
                        /\ ss[i].label = label
                        /\ \A j \in 1..(i - 1) : ss[j].label # label
         IN  Ok(SubSeq(ss, 1, index - 1) \o SubSeq(ss, index + 1, Len(ss)))

\* RemoteSessions::open, called by a transport.  The write lock waits for the
\* dispatch pass, which holds the read lock; a poisoned lock panics the caller
\* at write().unwrap(); a panic under the write lock poisons it.
Open(label, fmt) ==
    /\ ~crashed /\ pass = 0
    /\ LET r == IF poisoned THEN Panic
                ELSE open_session(sessions, label, fmt, nextCh + 1)
       IN  /\ r.ok => nextCh < MaxCh
           /\ sessions' = IF r.ok THEN r.val ELSE sessions
           /\ nextCh' = IF r.ok THEN nextCh + 1 ELSE nextCh
           /\ ends' = IF r.ok THEN [ends EXCEPT ![nextCh + 1] = AllEnds]
                      ELSE ends
           /\ poisoned' = (poisoned \/ ~r.ok)
           /\ lastOp' = [op |-> "open", label |-> label, ok |-> r.ok,
                         before |-> sessions]
    /\ UNCHANGED <<world, cache, reqQ, respQ, crashed, pass, sent, delivered,
                   pending0, lastD, lastLookup, http, lastInsert, wasm>>

\* RemoteSessions::close
Close(label) ==
    /\ ~crashed /\ pass = 0
    /\ LET r == IF poisoned THEN Panic ELSE close_session(sessions, label)
       IN  /\ sessions' = IF r.ok THEN r.val ELSE sessions
           /\ poisoned' = (poisoned \/ ~r.ok)
           /\ lastOp' = [op |-> "close", label |-> label, ok |-> r.ok,
                         before |-> sessions]
    /\ UNCHANGED <<world, cache, nextCh, reqQ, respQ, crashed, pass, sent,
                   delivered, pending0, lastD, lastLookup, http, lastInsert,
                   ends, wasm>>

\* a transport sends a request on the request_sender it got from open; it
\* keeps its channel handles after close
Send(ch, request) ==
    /\ ~crashed
    /\ ch \in 1..nextCh
    /\ "request_sender" \in ends[ch]
    /\ Len(sent) < MaxSubmit
    /\ reqQ' = [reqQ EXCEPT ![ch] =
                    Append(@, [uid |-> Len(sent) + 1, request |-> request])]
    /\ sent' = Append(sent, [ch |-> ch, request |-> request])
    /\ UNCHANGED <<world, cache, sessions, nextCh, respQ, poisoned, crashed,
                   pass, delivered, pending0, lastD, lastOp, lastLookup,
                   http, lastInsert, ends, wasm>>

\* a transport takes the next response from its response_receiver
Recv(ch) ==
    /\ ~crashed
    /\ "response_receiver" \in ends[ch]
    /\ respQ[ch] # <<>>
    /\ delivered' = [delivered EXCEPT ![ch] = Append(@, Head(respQ[ch]))]
    /\ respQ' = [respQ EXCEPT ![ch] = Tail(@)]
    /\ UNCHANGED <<world, cache, sessions, nextCh, reqQ, poisoned, crashed,
                   pass, sent, pending0, lastD, lastOp, lastLookup,
                   http, lastInsert, ends, wasm>>

PendingUids(ss) ==
    UNION {{reqQ[ss[i].ch][k].uid : k \in 1..Len(reqQ[ss[i].ch])} :
                i \in 1..Len(ss)}

\* variant: a receiver that takes the newest message instead of the oldest
try_recv_newest(q) == [msg |-> q[Len(q)], rest |-> SubSeq(q, 1, Len(q) - 1)]

\* Receiver::try_recv on a non-empty channel: the message taken and the rest
try_recv(q) == [msg |-> Head(q), rest |-> Tail(q)]

\* the result of one dispatch, as the ghost lastD keeps it
Dispatched(ch, fmt, request, o) ==
    [ch |-> ch, request |-> request, fmt |-> fmt, cache |-> cache,
     response |-> IF IsPanic(o.res) THEN NoDispatch.response
                  ELSE respond(request, o),
     panicked |-> IsPanic(o.res),
     before |-> world, after |-> o.world]

\* process_brp_sessions: the tick system takes the read lock and starts the
\* pass over the registry; on a poisoned lock read().unwrap() panics
TickStart ==
    /\ ~crashed /\ pass = 0
    /\ IF poisoned
       THEN crashed' = TRUE /\ UNCHANGED <<pass, pending0, ends, wasm>>
       ELSE /\ pass' = IF sessions = <<>> THEN 0 ELSE 1
            /\ pending0' = PendingUids(sessions)
            /\ UNCHANGED crashed
    /\ UNCHANGED <<world, cache, sessions, nextCh, reqQ, respQ, poisoned, sent,
                   delivered, lastD, lastOp, lastLookup, http, lastInsert,
                   ends, wasm>>

\* variant: the response is pushed and the handler's world is not kept
dispatch_effects_unapplied(session, r, o) ==
    /\ reqQ' = [reqQ EXCEPT ![session.ch] = r.rest]
    /\ world' = world
    /\ cache' = o.cache
    /\ lastD' = Dispatched(session.ch, session.serialization_format,
                           r.msg.request, o)
    /\ crashed' = (IsPanic(o.res)
                        \/ send_disconnected(sessions, ends, session.ch))
    /\ respQ' = IF crashed' THEN respQ
                ELSE [respQ EXCEPT ![session.ch] =
                        Append(@, [uid |-> r.msg.uid,
                                   response |-> respond(r.msg.request, o)])]

\* the turn's effects: the request r.msg leaves the channel and, unless the
\* handler panicked, its response enters the response channel
dispatch_effects(session, r, o) ==
    /\ reqQ' = [reqQ EXCEPT ![session.ch] = r.rest]
    /\ world' = o.world
    /\ cache' = o.cache
    /\ lastD' = Dispatched(session.ch, session.serialization_format,
                           r.msg.request, o)
    /\ crashed' = (IsPanic(o.res)
                        \/ send_disconnected(sessions, ends, session.ch))
    /\ respQ' = IF crashed' THEN respQ
                ELSE [respQ EXCEPT ![session.ch] =
                        Append(@, [uid |-> r.msg.uid,
                                   response |-> respond(r.msg.request, o)])]

dispatch_turn(session, r) ==
    dispatch_effects(session, r,
        process_request(world, cache, session.serialization_format,
                        r.msg.request))

\* one turn of the loop of RemoteSession::process with a request in the
\* channel: try_recv, process_request, send of the response
DispatchOne ==
    /\ ~crashed /\ pass >= 1
    /\ reqQ[sessions[pass].ch] # <<>>
    /\ dispatch_turn(sessions[pass], try_recv(reqQ[sessions[pass].ch]))
    /\ UNCHANGED <<sessions, nextCh, poisoned, pass, sent, delivered, pending0,
                   lastOp, lastLookup, http, lastInsert, ends, wasm>>

\* the turn of the loop that finds the channel empty: break, and the pass
\* goes to the next session or ends and releases the read lock; on
\* Disconnected the loop panics
SessionEmpty ==
    /\ ~crashed /\ pass >= 1
    /\ reqQ[sessions[pass].ch] = <<>>
    /\ crashed' = try_recv_disconnected(sessions, ends, reqQ,
                                        sessions[pass].ch)
    /\ pass' = IF crashed' THEN pass
               ELSE IF pass < Len(sessions) THEN pass + 1 ELSE 0
    /\ UNCHANGED <<world, cache, sessions, nextCh, reqQ, respQ, poisoned,
                   sent, delivered, pending0, lastD, lastOp,
                   lastLookup, http, lastInsert, ends, wasm>>

Init ==
    /\ world = World0
    /\ cache = EmptyCache
    /\ lastLookup = NoLookup
    /\ lastD = NoDispatch
    /\ lastInsert = NoInsert
    /\ SessionsIdle

Tick == TickStart \/ DispatchOne \/ SessionEmpty

Next ==
    \/ \E label \in Labels : \E fmt \in SessionFormats : Open(label, fmt)
    \/ \E label \in Labels : Close(label)
    \/ \E ch \in 1..MaxCh : \E request \in SessionRequests : Send(ch, request)
    \/ \E ch \in 1..MaxCh : Recv(ch)
    \/ TickStart
    \/ DispatchOne
    \/ SessionEmpty

Spec == Init /\ [][Next]_vars

\* the tick system runs every frame: each step of the pass is taken
SpecFair == Spec /\ WF_vars(Tick)

(***************************************************************************)
(* Properties of the dispatch loop and the registry                        *)
(***************************************************************************)
Channels == 1..MaxCh

\* the responses pushed so far on a response channel, oldest first
Responses(ch) == delivered[ch] \o respQ[ch]

Uids(q) == [k \in 1..Len(q) |-> q[k].uid]

Answers(u) ==
    {<<ch, k>> \in Channels \X (1..MaxSubmit) :
        k <= Len(Responses(ch)) /\ Responses(ch)[k].uid = u}

Answered(u) == Answers(u) # {}

Dispatches == lastD # NoDispatch

\* C1: every response pushed by the dispatch loop, success or Error, is on
\* the channel pair of its request and carries the id of that request
C1_ResponseIdIsRequestId ==
    /\ \A ch \in Channels : \A k \in 1..Len(Responses(ch)) :
          LET m == Responses(ch)[k]
          IN  /\ sent[m.uid].ch = ch
              /\ m.response.id = sent[m.uid].request.id
    /\ (Dispatches /\ ~lastD.panicked) => lastD.response.id = lastD.request.id

\* a success and an Error response, both pushed and both with a request id
C1_Witness ==
    \E ch \in Channels : \E k1, k2 \in 1..Len(Responses(ch)) :
        /\ Responses(ch)[k1].response.response.kind = "Error"
        /\ Responses(ch)[k1].response.id = 2
        /\ Responses(ch)[k2].response.response.kind = "Ok"
        /\ Responses(ch)[k2].response.id = 3

\* C2: a request sent to a session that stays open is answered eventually,
\* and no request is ever answered twice
C2_ExactlyOneResponse ==
    /\ [](\A u \in 1..MaxSubmit : Cardinality(Answers(u)) <= 1)
    /\ \A u \in 1..MaxSubmit :
          (Len(sent) >= u)
              ~> (Len(sent) >= u /\ (Answered(u) \/ ~Registered(sent[u].ch)))

\* C3: on each channel pair the answered requests followed by the pending
\* ones are in the order they were sent: dispatch takes the oldest request
\* and responses are pushed in dispatch order
C3_SessionFifo ==
    \A ch \in Channels :
        LET order == Uids(Responses(ch)) \o Uids(reqQ[ch])
        IN  \A i, j \in 1..Len(order) : i < j => order[i] < order[j]

\* two responses of one session in order, and a later request of another
\* session answered before an earlier one that is still pending
C3_Witness ==
    /\ \E ch \in Channels : Len(Responses(ch)) >= 2
    /\ \E u1, u2 \in 1..Len(sent) :
          /\ u1 < u2
          /\ sent[u1].ch # sent[u2].ch
          /\ Answered(u2)
          /\ Registered(sent[u1].ch)
          /\ u1 \in Range(Uids(reqQ[sent[u1].ch]))

\* C4: an open with the label of a registered session fails and leaves the
\* registry as it was; the registered labels are pairwise distinct
C4_LabelsUnique ==
    /\ \A i, j \in 1..Len(sessions) :
          i # j => sessions[i].label # sessions[j].label
    /\ (lastOp.op = "open" /\ lastOp.label \in SessionLabels(lastOp.before))
          => (~lastOp.ok /\ sessions = lastOp.before)

\* a failed open of a label that is registered, after a close and a reopen
C4_Witness ==
    /\ lastOp.op = "open"
    /\ ~lastOp.ok
    /\ lastOp.label \in SessionLabels(sessions)
    /\ \E i \in 1..Len(sessions) : sessions[i].ch = 2

\* C5: at the end of a dispatch pass every request that was pending in a
\* registered session at its start has a response, whatever happened to
\* the requests before it
C5_BadRequestDoesNotStopBatch ==
    (pass = 0 \/ crashed) => \A u \in pending0 : Answered(u)

(***************************************************************************)
(* SpecEngine: process_request over the request kinds, one at a time       *)
(***************************************************************************)
EngineEntities == {1, 2, 3}      \* 3 is not in the world

Json5Syntax == BrpSerializedData("Json5", [form |-> "syntax", v |-> 0])

RonPreamble == BrpSerializedData("Ron", [form |-> "preamble", v |-> 0])

JsonIllTyped == BrpSerializedData("Json", [form |-> "illtyped", v |-> 0])

EngineData ==
    { NoData,
      BrpQueryData(<<NameAFoo>>, <<>>, <<>>),
      BrpQueryData(<<NameFoo>>, <<>>, <<>>),
      BrpQueryData(<<NameStar>>, <<>>, <<>>),
      BrpQueryData(<<NameCBar>>, <<NameBFoo>>, <<NameAFoo>>),
      BrpQueryData(<<NameNope>>, <<>>, <<>>) }

EngineFilters ==
    { NoFilter,
      BrpQueryFilter(<<NameCBar>>, <<>>, PredAlways),
      BrpQueryFilter(<<>>, <<NameCBar>>, PredAlways),
      BrpQueryFilter(<<NameAFoo>>, <<>>, PredAlways),
      BrpQueryFilter(<<NameFoo>>, <<>>, PredAlways),
      BrpQueryFilter(<<>>, <<>>,
          PredPartialEq(<< <<NameAFoo, JsonValue(1)>> >>)),
      BrpQueryFilter(<<>>, <<>>,
          PredNot(PredPartialEq(<< <<NameBFoo, JsonValue(0)>> >>))),
      BrpQueryFilter(<<>>, <<>>,
          PredPartialEq(<< <<NameCBar, JsonValue(0)>> >>)),
      BrpQueryFilter(<<>>, <<>>,
          PredPartialEq(<< <<NameAFoo, Json5Syntax>> >>)),
      BrpQueryFilter(<<>>, <<>>,
          PredPartialEq(<< <<NameAFoo, DataUnserializable>> >>)),
      BrpQueryFilter(<<>>, <<>>,
          PredAny(<<PredAlways,
                    PredPartialEq(<< <<NameAFoo, DataUnserializable>> >>)>>)),
      BrpQueryFilter(<<>>, <<>>,
          PredAny(<<PredPartialEq(<< <<NameAFoo, JsonValue(1)>> >>),
                    PredPartialEq(<< <<NameAFoo, JsonIllTyped>> >>)>>)) }

EngineInserts ==
    { << <<NameAFoo, JsonValue(1)>> >>,
      << <<NameAFoo, DataDefault>> >>,
      << <<NameCBar, JsonValue(1)>> >>,
      << <<NameFoo, JsonValue(1)>> >>,
      << <<NameAFoo, JsonIllTyped>> >>,
      << <<NameAFoo, DataUnserializable>> >>,
      << <<NameAFoo, Json5Syntax>> >>,
      << <<NameAFoo, RonPreamble>> >>,
      << <<NameBFoo, JsonValue(1)>>, <<NameNope, JsonValue(1)>> >> }

EngineRequests ==
    {SimpleRequest(1, "Ping")}
    \cup {SimpleRequest(2, kind) : kind \in UnimplementedKinds}
    \cup {GetEntity(3, e, data, filter) :
            e \in EngineEntities, data \in EngineData, filter \in EngineFilters}
    \cup {QueryEntities(4, data, filter) :
            data \in EngineData, filter \in EngineFilters}
    \cup {InsertComponent(5, e, components) :
            e \in {2, 3}, components \in EngineInserts}
    \cup {GetAsset(6, name, handle) :
            name \in {NameHandle, NameAFoo, NameNope},
            handle \in {JsonValue(0), JsonValue(1), Json5Syntax,
                        DataUnserializable}}
    \cup {InsertAsset(7, NameHandle, handle, asset) :
            handle \in {JsonValue(1), JsonIllTyped, DataUnserializable},
            asset \in {JsonValue(1), DataUnserializable}}

InitEngine ==
    /\ world = World0
    /\ cache = EmptyCache
    /\ lastLookup = NoLookup
    /\ lastD = NoDispatch
    /\ lastInsert = NoInsert
    /\ SessionsIdle

\* the value a well-formed or Default payload stands for
PayloadValue(data) ==
    IF data.tag = "Default" THEN DefaultValue ELSE data.body.v

\* request is an InsertComponent of one component on an entity of the world
\* that lacked the component its name stood for, and was answered Ok
InsertAnsweredOk(request, o) ==
    /\ request.kind = "InsertComponent"
    /\ Len(request.components) = 1
    /\ o.res.ok
    /\ request.entity \in DOMAIN world.ents
    /\ component_by_name(o.cache, request.components[1][1]).ok
    /\ component_by_name(o.cache, request.components[1][1]).val
          \notin DOMAIN world.ents[request.entity]

\* the ghost lastInsert after a request: the insert just answered Ok, or the
\* earlier one as long as its entity keeps the component with that value
inserted(request, o) ==
    IF InsertAnsweredOk(request, o)
    THEN [e |-> request.entity, name |-> request.components[1][1],
          cid |-> component_by_name(o.cache, request.components[1][1]).val,
          v |-> PayloadValue(request.components[1][2])]
    ELSE IF /\ lastInsert # NoInsert
            /\ lastInsert.cid \in DOMAIN o.world.ents[lastInsert.e]
            /\ o.world.ents[lastInsert.e][lastInsert.cid] = lastInsert.v
    THEN lastInsert
    ELSE NoInsert

engine_effects(fmt, request, o) ==
    /\ world' = o.world
    /\ cache' = o.cache
    /\ lastD' = Dispatched(0, fmt, request, o)
    /\ lastInsert' = inserted(request, o)

\* the loop of RemoteSession::process takes a request of a session of format
\* fmt and runs process_request, with the conversion of an error into the
\* Error response
Dispatch(fmt, request) ==
    /\ lastD = NoDispatch
    /\ engine_effects(fmt, request,
                      process_request(world, cache, fmt, request))
    /\ UNCHANGED <<lastLookup, sessionVars>>

\* the response goes out on the response channel and the loop turns to the
\* next request
Respond ==
    /\ lastD # NoDispatch
    /\ ~lastD.panicked
    /\ lastD' = NoDispatch
    /\ UNCHANGED <<world, cache, lastLookup, lastInsert, sessionVars>>

NextEngine ==
    \/ \E fmt \in Formats : \E request \in EngineRequests :
            Dispatch(fmt, request)
    \/ Respond

SpecEngine == InitEngine /\ [][NextEngine]_vars

(***************************************************************************)
(* Properties of process_request                                           *)
(***************************************************************************)
ErrorContent(kind, name) ==
    [kind |-> "Error", body |-> [kind |-> kind, name |-> name]]

\* C6: a request of a kind the dispatcher does not handle is answered with
\* Error(Unimplemented) under the request's id, without a panic and with the
\* world as it was
C6_UnimplementedKinds ==
    (Dispatches /\ lastD.request.kind \in UnimplementedKinds) =>
        /\ ~lastD.panicked
        /\ lastD.response.id = lastD.request.id
        /\ lastD.response.response = ErrorContent("Unimplemented", NoName)
        /\ lastD.after = lastD.before
        /\ world = lastD.before

C6_Witness ==
    /\ Dispatches
    /\ lastD.request.kind = "PollEntities"
    /\ lastD.response.response.kind = "Error"
    /\ lastD.before # World0

\* the success variant of each request kind; none for the unhandled kinds
SuccessKind(kind) ==
    CASE kind \in {"Ping", "InsertComponent", "InsertAsset"} -> "Ok"
      [] kind \in {"GetEntity", "QueryEntities", "GetAsset"} -> kind
      [] OTHER -> "none"

\* C7: a response that is not an Error has the success variant of the kind
\* of the request that produced it
C7_ResponseKindMatchesRequest ==
    (Dispatches /\ ~lastD.panicked
        /\ lastD.response.response.kind # "Error") =>
            lastD.response.response.kind = SuccessKind(lastD.request.kind)

C7_Witness ==
    /\ Dispatches
    /\ lastD.request.kind = "GetEntity"
    /\ lastD.response.response.kind = "GetEntity"
    /\ lastD.request.data.components = <<NameStar>>

\* the world with no entity but e
RestrictTo(w, e) ==
    [w EXCEPT !.ents = [x \in DOMAIN w.ents \cap {e} |-> w.ents[x]]]

\* QueryEntities over the world restricted to the entity of the GetEntity
\* request d, then the unwrapping of the single result
GetByRestrictedQuery(d) ==
    LET q == process_brp_query_request(RestrictTo(d.before, d.request.entity),
                                       d.cache, d.fmt, d.request.id,
                                       d.request.data, d.request.filter).res
    IN  IF ~q.ok THEN q
        ELSE IF Len(q.val.response.body) = 1
        THEN Ok([id |-> d.request.id,
                 response |-> [kind |-> "GetEntity",
                               body |-> q.val.response.body[1]]])
        ELSE Err("EntityNotFound", NoName)

\* the entity of the GetEntity request d exists and has the components the
\* request's data and filter ask for, names resolved as the cache does
StructuralMatch(d) ==
    LET c == update_components(d.cache, d.before.components,
                               query_names(d.request.data, d.request.filter))
        e == d.request.entity
        id_of(n) == component_by_name(c, n).val
        required == IF d.request.data.components = <<NameStar>> THEN <<>>
                    ELSE d.request.data.components
    IN  /\ e \in DOMAIN d.before.ents
        /\ \A n \in Range(required) \cup Range(d.request.filter.with) :
                id_of(n) \in DOMAIN d.before.ents[e]
        /\ \A n \in Range(d.request.filter.without) :
                id_of(n) \notin DOMAIN d.before.ents[e]

NamesResolve(d) ==
    LET c == update_components(d.cache, d.before.components,
                               query_names(d.request.data, d.request.filter))
    IN  resolve_names(c, builder_names(d.request.data, d.request.filter), 1).ok

WhenHolds(d) ==
    LET c == update_components(d.cache, d.before.components,
                               query_names(d.request.data, d.request.filter))
    IN  process_brp_predicate(d.before, c, d.fmt, d.request.entity, CompIds,
                              d.request.filter.when)

WildcardQuery ==
    /\ Dispatches
    /\ lastD.request.kind = "QueryEntities"
    /\ lastD.request.data.components = <<NameStar>>

\* the row's component cannot be serialized by serialize_component
Unserializable(row) ==
    row.type_id = 0 \/ ~row.registered \/ ~row.from_ptr \/ ~row.serialize

\* C11: a wildcard query answers with, for each entity it returns, one
\* entry of `components` per component the entity has, keyed by the
\* component's long name, the value Unserializable where the component cannot
\* be serialized; such a component never makes the request fail
C11_WildcardReturnsEveryComponent ==
    WildcardQuery =>
        /\ lastD.request.filter.when = PredAlways =>
              lastD.response.response.kind = "QueryEntities"
        /\ lastD.response.response.kind = "QueryEntities" =>
              \A k \in 1..Len(lastD.response.response.body) :
                LET result == lastD.response.response.body[k]
                    has == DOMAIN lastD.before.ents[result.entity]
                IN  /\ Cardinality(DOMAIN result.components)
                          = Cardinality(has)
                    /\ DOMAIN result.components
                          = {CompTable[cid].name : cid \in has}
                    /\ \A cid \in has :
                          Unserializable(CompTable[cid]) =>
                              result.components[CompTable[cid].name]
                                  = DataUnserializable

(***************************************************************************)
(* SpecPredicate: process_brp_predicate over predicate trees               *)
(***************************************************************************)
MaxChildren == 2     \* children of an All or Any node

EqLeaves ==
    { PredPartialEq(<<>>),
      PredPartialEq(<< <<NameAFoo, JsonValue(1)>> >>),
      PredPartialEq(<< <<NameAFoo, JsonValue(0)>> >>),
      PredPartialEq(<< <<NameBFoo, JsonValue(0)>> >>),
      PredPartialEq(<< <<NameCBar, JsonValue(0)>> >>),
      PredPartialEq(<< <<NameNope, JsonValue(1)>> >>),
      PredPartialEq(<< <<NameAFoo, JsonIllTyped>> >>),
      PredPartialEq(<< <<NameAFoo, DataUnserializable>> >>),
      PredPartialEq(<< <<NameCBar, DataDefault>> >>),
      PredPartialEq(<< <<NameAFoo, JsonValue(1)>>,
                       <<NameBFoo, JsonValue(0)>> >>) }

PredLeaves == {PredAlways} \cup EqLeaves

ChildLists == UNION {[1..n -> PredLeaves] : n \in 0..MaxChildren}

PredTrees ==
    PredLeaves
    \cup {PredNot(p) : p \in PredLeaves}
    \cup {PredNot(PredNot(p)) : p \in PredLeaves}
    \cup {PredAll(ps) : ps \in ChildLists}
    \cup {PredAny(ps) : ps \in ChildLists}
    \cup {PredNot(PredAny(ps)) : ps \in ChildLists}

InitPredicate ==
    /\ world = World0
    /\ cache = EmptyCache
    /\ lastLookup = NoLookup
    /\ lastD = NoDispatch
    /\ lastInsert = NoInsert
    /\ SessionsIdle

\* the evaluation of filter.when for one candidate entity of a query in a
\* session of format fmt, after the handler's cache update for its names
EvalPredicate(fmt, e, p) ==
    /\ lastLookup = NoLookup
    /\ cache' = update_components(cache, world.components,
                                  BrpPredicate_iter(p))
    /\ lastLookup' =
          [name |-> NoName, pred |-> p, entity |-> e, fmt |-> fmt,
           res |-> process_brp_predicate(world, cache', fmt, e, CompIds, p)]
    /\ UNCHANGED <<world, lastD, sessionVars, lastInsert>>

\* the caller takes the value: the entity is kept, dropped or the request
\* fails, and the next evaluation starts
TakeValue ==
    /\ lastLookup # NoLookup
    /\ lastLookup' = NoLookup
    /\ UNCHANGED <<world, cache, lastD, sessionVars, lastInsert>>

NextPredicate ==
    \/ \E fmt \in Formats : \E e \in DOMAIN world.ents : \E p \in PredTrees :
          EvalPredicate(fmt, e, p)
    \/ TakeValue

SpecPredicate == InitPredicate /\ [][NextPredicate]_vars

Evaluated == "pred" \in DOMAIN lastLookup

\* the value of predicate q for the entity and session of the last evaluation
ValueOf(q) ==
    process_brp_predicate(world, cache, lastLookup.fmt, lastLookup.entity,
                          CompIds, q)

ChildrenHaveValues(p) == \A k \in 1..Len(p.args) : ValueOf(p.args[k]).ok

EqOfAbsentComponent ==
    /\ Evaluated
    /\ lastLookup.pred.op = "PartialEq"
    /\ Len(lastLookup.pred.map) = 1
    /\ component_by_name(cache, lastLookup.pred.map[1][1]).ok
    /\ component_by_name(cache, lastLookup.pred.map[1][1]).val
          \notin DOMAIN world.ents[lastLookup.entity]

\* C13: an Eq entry whose component is absent from the entity evaluates to
\* false and never to an error, whatever the expected value is
C13_AbsentComponentIsFalse ==
    EqOfAbsentComponent => lastLookup.res = Ok(FALSE)

RECURSIVE ExpectedValues(_)
\* the expected values of the Eq entries anywhere in predicate p
ExpectedValues(p) ==
    {p.map[i][2] : i \in 1..Len(p.map)}
    \cup UNION {ExpectedValues(p.args[k]) : k \in 1..Len(p.args)}

\* the serialized values the client put into the request
SubmittedValues(request) ==
    CASE request.kind = "InsertComponent" ->
            {request.components[i][2] : i \in 1..Len(request.components)}
      [] request.kind \in {"GetEntity", "QueryEntities"} ->
            ExpectedValues(request.filter.when)
      [] request.kind = "GetAsset" -> {request.handle}
      [] request.kind = "InsertAsset" -> {request.handle, request.asset}
      [] OTHER -> {}

SubmitsUnserializable ==
    /\ Dispatches
    /\ DataUnserializable \in SubmittedValues(lastD.request)

\* C14: a request in which the client submits Unserializable as a value (an
\* InsertComponent component, an Eq expected value, an asset handle or an
\* asset body) is answered with an Error response, never with a success
C14_SubmittedUnserializableIsRejected ==
    SubmitsUnserializable =>
        /\ ~lastD.panicked
        /\ lastD.response.response.kind = "Error"

\* the last request was a QueryEntities requiring the component named n
QueryRequiring(n) ==
    /\ Dispatches
    /\ lastD.request.kind = "QueryEntities"
    /\ lastD.request.data = BrpQueryData(<<n>>, <<>>, <<>>)
    /\ lastD.request.filter = BrpQueryFilter(<<n>>, <<>>, PredAlways)

\* the last response is a query result that has entity e with value v under
\* the name n
QueryIncludes(e, n, v) ==
    /\ ~lastD.panicked
    /\ lastD.response.response.kind = "QueryEntities"
    /\ \E k \in 1..Len(lastD.response.response.body) :
          LET result == lastD.response.response.body[k]
          IN  /\ result.entity = e
              /\ n \in DOMAIN result.components
              /\ result.components[n].tag = lastD.fmt
              /\ result.components[n].body = WellFormed(v)

\* C15: after an InsertComponent of C with value v on an entity E that lacked
\* C was answered Ok, E has C with value v, and every later QueryEntities with
\* data.components = [C] and filter.with = [C], as long as E's C is still v,
\* includes E with v
C15_InsertThenQuery ==
    lastInsert # NoInsert =>
        /\ lastInsert.cid \in DOMAIN world.ents[lastInsert.e]
        /\ world.ents[lastInsert.e][lastInsert.cid] = lastInsert.v
        /\ QueryRequiring(lastInsert.name) =>
              QueryIncludes(lastInsert.e, lastInsert.name, lastInsert.v)

\* the last request was an InsertComponent of one component, named by its
\* full name and registered with its reflection data, on an entity of the
\* world, with a payload in one of the three text formats that is not
\* well-formed
MalformedInsert ==
    /\ Dispatches
    /\ lastD.request.kind = "InsertComponent"
    /\ lastD.request.entity \in DOMAIN lastD.before.ents
    /\ Len(lastD.request.components) = 1
    /\ \E cid \in CompIds :
          /\ CompTable[cid].name = lastD.request.components[1][1]
          /\ CompTable[cid].type_id # 0
          /\ CompTable[cid].registered
    /\ lastD.request.components[1][2].tag \in Formats
    /\ lastD.request.components[1][2].body.form # "wf"

\* C16: deserializing a payload that is not well-formed, in any of the three
\* text formats, gives Deserialization with the name the client used, and
\* neither a panic nor another error nor a value
C16_MalformedPayloadIsDeserializationError ==
    MalformedInsert =>
        /\ ~lastD.panicked
        /\ lastD.response.response =
              ErrorContent("Deserialization", lastD.request.components[1][1])

(***************************************************************************)
(* SpecHttp: the HTTP transport (http.rs) on its session, with the tick    *)
(***************************************************************************)
MaxHttpRequests == 3     \* requests the HTTP server accepts in a run

HttpLabel == "HTTP"

HttpCh == 1

\* what clients post: the id they supply is replaced
HttpRequests ==
    { SimpleRequest(7, "Ping"),
      InsertComponent(7, 1, << <<NameAFoo, Json5Syntax>> >>) }

InitHttp ==
    /\ world = World0
    /\ cache = EmptyCache
    /\ lastLookup = NoLookup
    /\ lastD = NoDispatch
    /\ lastInsert = NoInsert
    /\ sessions = <<RemoteSession(HttpLabel, "Json", HttpCh)>>
    /\ nextCh = 1
    /\ reqQ = [ch \in 1..MaxCh |-> <<>>]
    /\ respQ = [ch \in 1..MaxCh |-> <<>>]
    /\ poisoned = FALSE
    /\ crashed = FALSE
    /\ pass = 0
    /\ sent = <<>>
    /\ delivered = [ch \in 1..MaxCh |-> <<>>]
    /\ pending0 = {}
    /\ lastOp = NoOp
    /\ http = HttpIdle
    /\ wasm = WasmIdle
    /\ ends = HeldEnds(1)

\* variant: a counter read that does not increment
fetch_same(counter) == [prev |-> counter, next |-> counter]

\* AtomicU64::fetch_add(1): the previous value, and the counter after it
fetch_add(counter) == [prev |-> counter, next |-> counter + 1]

Handler(i) == http.handlers[i]

SetHandler(i, h) == [http EXCEPT !.handlers[i] = h]

\* a handler thread takes a POST to /brp and gives the request the next id
HttpAssign(i, request) ==
    /\ Handler(i).pc = "idle"
    /\ http.request_id < MaxHttpRequests
    /\ LET f == fetch_add(http.request_id)
       IN  http' = [http EXCEPT
                      !.request_id = f.next,
                      !.handlers[i] =
                          [HandlerIdle EXCEPT
                              !.pc = "assigned", !.id = f.prev,
                              !.request = [request EXCEPT !.id = f.prev]]]
    /\ UNCHANGED <<world, cache, sessions, nextCh, reqQ, respQ, poisoned,
                   crashed, pass, sent, delivered, pending0, lastD, lastOp,
                   lastLookup, lastInsert, ends, wasm>>

\* request_sender.send: the request enters the channel; with the session
\* closed the receiver is gone, send fails and the handler returns
\* InternalError
HttpSend(i) ==
    /\ Handler(i).pc = "assigned"
    /\ IF Registered(HttpCh)
       THEN /\ reqQ' = [reqQ EXCEPT ![HttpCh] =
                          Append(@, [uid |-> Len(sent) + 1,
                                     request |-> Handler(i).request])]
            /\ sent' = Append(sent, [ch |-> HttpCh,
                                     request |-> Handler(i).request])
            /\ http' = SetHandler(i, [Handler(i) EXCEPT
                                        !.pc = "waiting",
                                        !.uid = Len(sent) + 1])
       ELSE /\ http' = SetHandler(i, [Handler(i) EXCEPT
                          !.pc = "returned",
                          !.returned = BrpResponse_from_error(
                              Handler(i).id,
                              [kind |-> "InternalError", name |-> NoName])])
            /\ UNCHANGED <<reqQ, sent>>
    /\ UNCHANGED <<world, cache, sessions, nextCh, respQ, poisoned, crashed,
                   pass, delivered, pending0, lastD, lastOp, lastLookup,
                   lastInsert, ends, wasm>>

\* HTTP_REQUEST_TIMEOUT passes for a waiting handler
HttpExpire(i) ==
    /\ Handler(i).pc = "waiting"
    /\ ~Handler(i).late
    /\ http' = SetHandler(i, [Handler(i) EXCEPT !.late = TRUE])
    /\ UNCHANGED <<world, cache, sessions, nextCh, reqQ, respQ, poisoned,
                   crashed, pass, sent, delivered, pending0, lastD, lastOp,
                   lastLookup, lastInsert, ends, wasm>>

\* what one turn of the handler's loop does with the response m it received:
\* the handler after it, the response channel after it, and whether the
\* handler returned Timeout
handle_response(h, m, rest) ==
    IF m.response.id = h.id
    THEN [handler |-> [h EXCEPT !.pc = "returned", !.returned = m.response,
                                !.got = m.uid],
          queue |-> rest, timeout |-> FALSE]
    ELSE IF h.late
    THEN [handler |-> [h EXCEPT
                          !.pc = "returned",
                          !.returned = BrpResponse_from_error(
                              h.id, [kind |-> "Timeout", name |-> NoName])],
          queue |-> rest, timeout |-> TRUE]
    ELSE [handler |-> h, queue |-> Append(rest, m), timeout |-> FALSE]

\* recv_deadline returns a response: a message of the channel is taken even
\* after the deadline
HttpRecv(i) ==
    /\ Handler(i).pc = "waiting"
    /\ respQ[HttpCh] # <<>>
    /\ LET r == handle_response(Handler(i), Head(respQ[HttpCh]),
                                Tail(respQ[HttpCh]))
       IN  /\ http' = [http EXCEPT
                        !.handlers[i] = r.handler,
                        !.timed_out = IF r.timeout
                                      THEN @ \cup {Handler(i).uid} ELSE @]
           /\ respQ' = [respQ EXCEPT ![HttpCh] = r.queue]
    /\ UNCHANGED <<world, cache, sessions, nextCh, reqQ, poisoned, crashed,
                   pass, sent, delivered, pending0, lastD, lastOp,
                   lastLookup, lastInsert, ends, wasm>>

\* recv_deadline returns RecvTimeoutError::Timeout: the channel is empty at
\* the deadline
HttpTimeout(i) ==
    /\ Handler(i).pc = "waiting"
    /\ Handler(i).late
    /\ respQ[HttpCh] = <<>>
    /\ http' = [http EXCEPT
                  !.handlers[i] = [Handler(i) EXCEPT
                      !.pc = "returned",
                      !.returned = BrpResponse_from_error(
                          Handler(i).id,
                          [kind |-> "Timeout", name |-> NoName])],
                  !.timed_out = @ \cup {Handler(i).uid}]
    /\ UNCHANGED <<world, cache, sessions, nextCh, reqQ, respQ, poisoned,
                   crashed, pass, sent, delivered, pending0, lastD, lastOp,
                   lastLookup, lastInsert, ends, wasm>>

\* the response went to the client; the thread is free for the next POST
HttpDone(i) ==
    /\ Handler(i).pc = "returned"
    /\ http' = SetHandler(i, HandlerIdle)
    /\ UNCHANGED <<world, cache, sessions, nextCh, reqQ, respQ, poisoned,
                   crashed, pass, sent, delivered, pending0, lastD, lastOp,
                   lastLookup, lastInsert, ends, wasm>>

NextHttp ==
    \/ \E i \in Handlers : \E request \in HttpRequests : HttpAssign(i, request)
    \/ \E i \in Handlers : HttpSend(i)
    \/ \E i \in Handlers : HttpExpire(i)
    \/ \E i \in Handlers : HttpRecv(i)
    \/ \E i \in Handlers : HttpTimeout(i)
    \/ \E i \in Handlers : HttpDone(i)
    \/ Close(HttpLabel)
    \/ Tick

SpecHttp == InitHttp /\ [][NextHttp]_vars

\* handler i takes a response that is not the one it waits for
TakesOthersResponse(i) ==
    /\ HttpRecv(i)
    /\ Head(respQ[HttpCh]).response.id # Handler(i).id

\* C17: a handler that takes from the response channel a response whose id
\* is not the id it waits for puts it back on the same channel, also when
\* its own deadline has passed
C17_MismatchedResponseIsRequeued ==
    [][\A i \in Handlers :
          TakesOthersResponse(i) =>
              Head(respQ[HttpCh]) \in Range(respQ'[HttpCh])]_vars

TimeoutContent == ErrorContent("Timeout", NoName)

HttpDispatches(u) ==
    /\ Dispatches
    /\ lastD.ch = HttpCh
    /\ lastD.request = sent[u].request

\* C18: a handler whose deadline expired returns Timeout under its own id,
\* and the request it enqueued, once the dispatch loop has taken it, is
\* processed to its response, which goes out under the request's id
C18_TimeoutDoesNotCancel ==
    /\ \A i \in Handlers :
          (Handler(i).pc = "returned"
              /\ Handler(i).returned.response = TimeoutContent) =>
                  Handler(i).returned.id = Handler(i).id
    /\ \A u \in http.timed_out :
          HttpDispatches(u) =>
              /\ ~lastD.panicked
              /\ lastD.response.id = sent[u].request.id

Active(i) == Handler(i).pc # "idle"

\* C19: the ids the handlers give their requests come from the shared
\* counter: no two handlers hold the same id, no two requests were sent
\* under the same id, the request goes out under the handler's id, and what
\* a handler returns is the response to its own request or a Timeout or
\* InternalError under its own id
C19_HandlersKeepTheirIds ==
    /\ \A i, j \in Handlers :
          (i # j /\ Active(i) /\ Active(j)) => Handler(i).id # Handler(j).id
    /\ \A u, v \in DOMAIN sent :
          u # v => sent[u].request.id # sent[v].request.id
    /\ \A i \in Handlers :
          /\ Active(i) => Handler(i).request.id = Handler(i).id
          /\ Handler(i).pc = "returned" =>
                /\ Handler(i).returned.id = Handler(i).id
                /\ Handler(i).got # 0 =>
                      /\ Handler(i).got = Handler(i).uid
                      /\ sent[Handler(i).got].request.id = Handler(i).id
                /\ Handler(i).got = 0 =>
                      Handler(i).returned.response \in
                          {TimeoutContent,
                           ErrorContent("InternalError", NoName)}

\* a handler has the response to its own request while the other handler,
\* whose request was sent first, still waits
C19_Witness ==
    \E i, j \in Handlers :
        /\ Handler(i).pc = "returned"
        /\ Handler(i).got = Handler(i).uid
        /\ Handler(i).got # 0
        /\ Handler(j).pc = "waiting"
        /\ Handler(j).uid < Handler(i).uid

(***************************************************************************)
(* SpecDrain: one session's dispatch pass against transports that keep     *)
(* sending                                                                 *)
(***************************************************************************)
MaxQueue == 2     \* messages a channel holds at a time in the runs

DrainRequests == {SimpleRequest(1, "Ping"), GetEntity(2, 3, NoData, NoFilter)}

InitDrain ==
    /\ world = World0
    /\ cache = EmptyCache
    /\ lastLookup = NoLookup
    /\ lastD = NoDispatch
    /\ lastInsert = NoInsert
    /\ sessions = <<RemoteSession("A", "Json", 1), RemoteSession("B", "Json", 2)>>
    /\ nextCh = 2
    /\ reqQ = [ch \in 1..MaxCh |-> <<>>]
    /\ respQ = [ch \in 1..MaxCh |-> <<>>]
    /\ poisoned = FALSE
    /\ crashed = FALSE
    /\ pass = 0
    /\ sent = <<>>
    /\ delivered = [ch \in 1..MaxCh |-> <<>>]
    /\ pending0 = {}
    /\ lastOp = NoOp
    /\ http = HttpIdle
    /\ wasm = WasmIdle
    /\ ends = HeldEnds(2)

\* a transport sends a request, at any time, also during a pass
Enqueue(ch, request) ==
    /\ Registered(ch)
    /\ Len(reqQ[ch]) < MaxQueue
    /\ reqQ' = [reqQ EXCEPT ![ch] = Append(@, [uid |-> 0, request |-> request])]
    /\ UNCHANGED <<world, cache, sessions, nextCh, respQ, poisoned, crashed,
                   pass, sent, delivered, pending0, lastD, lastOp, lastLookup,
                   lastInsert, http, ends, wasm>>

\* a transport takes the next response
Take(ch) ==
    /\ respQ[ch] # <<>>
    /\ respQ' = [respQ EXCEPT ![ch] = Tail(@)]
    /\ UNCHANGED <<world, cache, sessions, nextCh, reqQ, poisoned, crashed,
                   pass, sent, delivered, pending0, lastD, lastOp, lastLookup,
                   lastInsert, http, ends, wasm>>

\* one turn of the drain loop with a request in the channel
DrainOne ==
    /\ pass >= 1
    /\ Len(respQ[sessions[pass].ch]) < MaxQueue
    /\ DispatchOne

DrainPass == TickStart \/ DrainOne \/ SessionEmpty

NextDrain ==
    \/ \E ch \in 1..MaxCh : \E request \in DrainRequests : Enqueue(ch, request)
    \/ \E ch \in 1..MaxCh : Take(ch)
    \/ DrainPass

SpecDrain == InitDrain /\ [][NextDrain]_vars

\* the tick thread runs, and the transports take the responses sent to them
SpecDrainFair ==
    /\ SpecDrain
    /\ WF_vars(DrainPass)
    /\ \A ch \in 1..MaxCh : WF_vars(Take(ch))

\* C20: a dispatch pass that has started ends and gives control back to the
\* tick, also while transports keep sending requests during the pass
C20_PassTerminates == (pass >= 1) ~> (pass = 0)

\* the position in the registry of the session opened under label
SessionIndex(label) ==
    (CHOOSE i \in 1..Len(sessions) : sessions[i].label = label)

PassAt(label) == pass >= 1 /\ sessions[pass].label = label

\* C21: a request pending in session B when the pass is at session A is
\* reached by that pass, whatever is pending in or keeps arriving at A
C21_NoHeadOfLineBlocking ==
    (PassAt("A") /\ reqQ[sessions[SessionIndex("B")].ch] # <<>>) ~> PassAt("B")

(***************************************************************************)
(* SpecCodec: deserialize_component over payloads, types and sessions      *)
(***************************************************************************)
MaxValue == 1     \* the values a payload stands for are 0..MaxValue

\* the texts of one format: well-formed for a value, or malformed in one of
\* the three ways
Bodies ==
    {WellFormed(v) : v \in 0..MaxValue}
    \cup {[form |-> f, v |-> 0] : f \in PayloadForms \ {"wf"}}

Payloads ==
    {BrpSerializedData(tag, body) : tag \in Formats, body \in Bodies}
    \cup {DataDefault, DataUnserializable}

InitCodec ==
    /\ world = World0
    /\ cache = EmptyCache
    /\ lastLookup = NoLookup
    /\ lastD = NoDispatch
    /\ lastInsert = NoInsert
    /\ SessionsIdle

\* a handler of a session of format fmt deserializes payload input for the
\* type of component cid, which the client named by its full name
Deserialize(cid, input, fmt) ==
    /\ lastLookup' =
          [name |-> CompTable[cid].name, cid |-> cid, input |-> input,
           fmt |-> fmt,
           res |-> deserialize_component(CompTable[cid], input, fmt,
                                         CompTable[cid].name)]
    /\ UNCHANGED <<world, cache, lastD, lastInsert, sessionVars>>

NextCodec ==
    \E cid \in CompIds : \E input \in Payloads : \E fmt \in Formats :
        Deserialize(cid, input, fmt)

SpecCodec == InitCodec /\ [][NextCodec]_vars

Deserialized == "input" \in DOMAIN lastLookup

\* C22: the outcome of deserializing a payload is the same in a session of
\* every format: it depends on the payload and the target type alone
C22_OutcomeIndependentOfSessionFormat ==
    Deserialized =>
        \A fmt \in Formats :
            deserialize_component(CompTable[lastLookup.cid], lastLookup.input,
                                  fmt, lastLookup.name) = lastLookup.res

\* a payload in a format other than the session's gave a value
C22_Witness ==
    /\ Deserialized
    /\ lastLookup.input.tag \in Formats
    /\ lastLookup.input.tag # lastLookup.fmt
    /\ lastLookup.res.ok

\* this step is a cache update for a batch with a name that was not cached
ScanningUpdate ==
    \E names \in NameBatches : \E k \in 1..Len(names) :
        /\ CacheLookup(names, k)
        /\ missing_components(cache, names) # {}

\* cache c has an entry in both maps for every component registered in w
CacheCoversRegistry(c, w) ==
    \A id \in Range(w.components) :
        /\ CompTable[id].name \in DOMAIN c.components_by_name
        /\ get_short_name(CompTable[id].name)
              \in DOMAIN c.components_by_short_name

\* C23: after a cache update for a batch with at least one name not yet
\* cached, both maps have an entry for every component registered in the
\* world, not only for the names of the batch
C23_ScanCachesEveryComponent ==
    [][ScanningUpdate => CacheCoversRegistry(cache', world)]_vars

\* map m2 keeps every key of map m1 with the descriptor it had
KeepsEntries(m1, m2) ==
    \A key \in DOMAIN m1 : key \in DOMAIN m2 /\ m2[key] = m1[key]

\* C24: the cache is insert-only: no step removes a key of the long-name map
\* or of the short-name map or gives it a different descriptor, the
\* ambiguous set only grows, and every ambiguous name is a key of the
\* short-name map
C24_CacheIsInsertOnly ==
    [][/\ KeepsEntries(cache.components_by_name, cache'.components_by_name)
       /\ KeepsEntries(cache.components_by_short_name,
                       cache'.components_by_short_name)
       /\ cache.ambiguous_short_names \subseteq cache'.ambiguous_short_names
       /\ cache'.ambiguous_short_names
              \subseteq DOMAIN cache'.components_by_short_name]_vars

\* the value that decides an All (false) or an Any (true)
Decider(p) == p.op = "Any"

\* the children of p at which the loop of All or Any stops: the child fails
\* or has the deciding value
StopsAt(p) ==
    {k \in 1..Len(p.args) :
        \/ ~ValueOf(p.args[k]).ok
        \/ ValueOf(p.args[k]).val = Decider(p)}

FirstOf(ks) == CHOOSE k \in ks : \A j \in ks : k <= j

\* C25: All and Any evaluate their children from left to right and stop at
\* the first child that decides the result or fails: the result is that
\* child's deciding value or that child's error, whatever the later
\* children would give, and it is the neutral value when no child stops
C25_ShortCircuit ==
    (Evaluated /\ lastLookup.pred.op \in {"All", "Any"}) =>
        LET p == lastLookup.pred
            r == lastLookup.res
        IN  IF StopsAt(p) = {} THEN r = Ok(~Decider(p))
            ELSE LET first == ValueOf(p.args[FirstOf(StopsAt(p))])
                 IN  r = IF first.ok THEN Ok(Decider(p)) ELSE first

\* an All whose first child is false and whose second child would fail
C25_Witness ==
    /\ Evaluated
    /\ lastLookup.pred.op = "All"
    /\ Len(lastLookup.pred.args) = 2
    /\ ValueOf(lastLookup.pred.args[1]) = Ok(FALSE)
    /\ ~ValueOf(lastLookup.pred.args[2]).ok
    /\ lastLookup.res = Ok(FALSE)

(***************************************************************************)
(* SpecResolve: queries over a registry in which the short name Foo is     *)
(* shared by a::Foo and b::Foo and is no component's long name             *)
(***************************************************************************)
ResolveComponents == <<1, 2, 3>>

ResolveWorlds ==
    { [components |-> ResolveComponents, ents |-> << >>, assets |-> << >>],
      [components |-> ResolveComponents,
       ents |-> [e \in {1, 2} |->
                  IF e = 1 THEN [cid \in {1, 3} |-> IF cid = 1 THEN 1 ELSE 0]
                  ELSE [cid \in {2} |-> 0]],
       assets |-> << >>] }

ResolveData ==
    { NoData,
      BrpQueryData(<<NameAFoo>>, <<>>, <<>>),
      BrpQueryData(<<NameFoo>>, <<>>, <<>>),
      BrpQueryData(<<NameStar>>, <<>>, <<>>),
      BrpQueryData(<<>>, <<NameFoo>>, <<>>),
      BrpQueryData(<<>>, <<>>, <<NameNope>>),
      BrpQueryData(<<NameStar, NameAFoo>>, <<>>, <<>>),
      BrpQueryData(<<NameAFoo, NameStar>>, <<>>, <<>>) }

ResolveFilters ==
    { NoFilter,
      BrpQueryFilter(<<NameFoo>>, <<>>, PredAlways),
      BrpQueryFilter(<<>>, <<NameNope>>, PredAlways),
      BrpQueryFilter(<<>>, <<>>,
          PredPartialEq(<< <<NameBFoo, JsonValue(0)>> >>)),
      BrpQueryFilter(<<>>, <<>>,
          PredAny(<<PredAlways,
                    PredPartialEq(<< <<NameNope, JsonValue(0)>> >>)>>)),
      BrpQueryFilter(<<>>, <<>>,
          PredNot(PredAny(<<PredAlways,
                    PredPartialEq(<< <<NameFoo, JsonValue(0)>> >>)>>))) }

ResolveRequests ==
    {GetEntity(3, e, data, filter) :
        e \in {1, 3}, data \in ResolveData, filter \in ResolveFilters}
    \cup {QueryEntities(4, data, filter) :
            data \in ResolveData, filter \in ResolveFilters}

InitResolve ==
    /\ world \in ResolveWorlds
    /\ cache = EmptyCache
    /\ lastLookup = NoLookup
    /\ lastD = NoDispatch
    /\ lastInsert = NoInsert
    /\ SessionsIdle

NextResolve ==
    \/ \E fmt \in Formats : \E request \in ResolveRequests :
            Dispatch(fmt, request)
    \/ Respond

SpecResolve == InitResolve /\ [][NextResolve]_vars

\* the positions of the names the query of dispatch d refers to that are
\* unknown or ambiguous over the registered components
UnresolvableNames(d) ==
    LET names == builder_names(d.request.data, d.request.filter)
    IN  {k \in 1..Len(names) : ~ResolveByPrecedence(names[k]).ok}

\* C26: a GetEntity or QueryEntities that refers to an unknown or ambiguous
\* name (under components outside wildcard mode, optional, has, with, without
\* or anywhere inside when) is answered with the resolution error of the
\* first such name, whatever entities exist and whether or not the
\* predicate's evaluation would reach the name
C26_NamesResolvedBeforeEntities ==
    (Dispatches /\ lastD.request.kind \in {"GetEntity", "QueryEntities"}
        /\ UnresolvableNames(lastD) # {}) =>
        LET names == builder_names(lastD.request.data, lastD.request.filter)
        IN  /\ ~lastD.panicked
            /\ lastD.response.response =
                  [kind |-> "Error",
                   body |-> ResolveByPrecedence(
                               names[FirstOf(UnresolvableNames(lastD))]).err]

\* the cache of a session that resolves the names of dispatch d with nothing
\* cached before: every registered component these names stand for
FreshCache(d) ==
    update_components(EmptyCache, d.before.components,
                      query_names(d.request.data, d.request.filter))

\* the component name n stands for among the registered components
ComponentOf(d, n) == component_by_name(FreshCache(d), n).val

\* the entities the query of dispatch d asks for: every required component,
\* every `with` component, no `without` component, and `when` true
Selected(d) ==
    LET data == d.request.data
        filter == d.request.filter
        required == IF fetch_all_components(data) THEN <<>>
                    ELSE data.components
    IN  {e \in DOMAIN d.before.ents :
            /\ \A n \in Range(required) \cup Range(filter.with) :
                    ComponentOf(d, n) \in DOMAIN d.before.ents[e]
            /\ \A n \in Range(filter.without) :
                    ComponentOf(d, n) \notin DOMAIN d.before.ents[e]
            /\ process_brp_predicate(d.before, FreshCache(d), d.fmt, e,
                                     CompIds, filter.when) = Ok(TRUE)}

\* result answers for entity e what optional and has ask: an absent optional
\* is None, an absent has is false
AbsenceIsReported(d, result) ==
    LET has == DOMAIN d.before.ents[result.entity]
    IN  /\ \A n \in Range(d.request.data.optional) :
              ComponentOf(d, n) \notin has => result.optional[n] = <<>>
        /\ \A n \in Range(d.request.data.has) :
              result.has[n] = (ComponentOf(d, n) \in has)

\* the filter of d is `when` = Not(Eq{n: v}) alone, and e lacks n
LacksNegatedComponent(d, e) ==
    /\ d.request.filter.with = <<>>
    /\ d.request.filter.without = <<>>
    /\ d.request.filter.when.op = "Not"
    /\ d.request.filter.when.args[1].op = "PartialEq"
    /\ Len(d.request.filter.when.args[1].map) = 1
    /\ ComponentOf(d, d.request.filter.when.args[1].map[1][1])
          \notin DOMAIN d.before.ents[e]

SuccessfulQuery ==
    /\ Dispatches
    /\ lastD.request.kind = "QueryEntities"
    /\ ~lastD.panicked
    /\ lastD.response.response.kind = "QueryEntities"

\* C27: a successful QueryEntities lists each entity at most once and lists
\* exactly the entities that have every required and `with` component, no
\* `without` component and a true `when`; an absent optional is None, an
\* absent has is false, and with `when` = Not(Eq{n: v}) alone an entity
\* that lacks n is listed
C27_QueryReturnsTheSelectedEntities ==
    SuccessfulQuery =>
        LET body == lastD.response.response.body
        IN  /\ resolve_names(FreshCache(lastD),
                    builder_names(lastD.request.data, lastD.request.filter),
                    1).ok
            /\ \A i, j \in 1..Len(body) :
                    body[i].entity = body[j].entity => i = j
            /\ {body[k].entity : k \in 1..Len(body)} = Selected(lastD)
            /\ \A k \in 1..Len(body) : AbsenceIsReported(lastD, body[k])
            /\ lastD.request.data = NoData =>
                  \A e \in DOMAIN lastD.before.ents :
                      LacksNegatedComponent(lastD, e) =>
                          \E k \in 1..Len(body) : body[k].entity = e

\* the components the built query of dispatch d may read, names resolved by
\* the cache the handler left
AccessOf(d) ==
    (IF fetch_all_components(d.request.data) THEN {}
     ELSE ids_of(cache, d.request.data.components))
        \cup ids_of(cache, d.request.data.optional)
        \cup ids_of(cache, d.request.data.has)
        \cup ids_of(cache, BrpPredicate_iter(d.request.filter.when))

\* the entities the built query of dispatch d iterates
Candidates(d) ==
    {e \in DOMAIN d.before.ents :
        query_matches(d.before, e,
            IF fetch_all_components(d.request.data) THEN {}
            ELSE ids_of(cache, d.request.data.components),
            ids_of(cache, d.request.filter.with),
            ids_of(cache, d.request.filter.without))}

\* the results of serializing for e the named components of d and the
\* optional ones that e has
NamedSerializations(d, e) ==
    {serialize_component(d.before, e, AccessOf(d), n,
                         component_by_name(cache, n).val, d.fmt) :
        n \in {x \in Range(d.request.data.optional) :
                  component_by_name(cache, x).val \in DOMAIN d.before.ents[e]}
              \cup (IF fetch_all_components(d.request.data) THEN {}
                    ELSE Range(d.request.data.components))}

\* what candidate e of d raises: the failure of its predicate, or with a
\* true predicate the failures of its serializations
Raised(d, e) ==
    LET when == process_brp_predicate(d.before, cache, d.fmt, e, AccessOf(d),
                                      d.request.filter.when)
    IN  IF ~when.ok THEN {when}
        ELSE IF ~when.val THEN {}
        ELSE {s \in NamedSerializations(d, e) : ~s.ok}

QueryReachesCandidates ==
    /\ Dispatches
    /\ lastD.request.kind = "QueryEntities"
    /\ resolve_names(cache, builder_names(lastD.request.data,
                                          lastD.request.filter), 1).ok

\* C28: when the predicate or the serialization of a named component raises
\* an error for some candidate of a QueryEntities, the response is the Error
\* that one of the candidates raises and never a QueryEntities list (the
\* request ends in a panic only if a candidate's evaluation panics)
C28_CandidateErrorFailsTheRequest ==
    QueryReachesCandidates =>
        LET raised == UNION {Raised(lastD, e) : e \in Candidates(lastD)}
        IN  raised # {} =>
                IF lastD.panicked THEN \E r \in raised : IsPanic(r)
                ELSE /\ lastD.response.response.kind = "Error"
                     /\ \E r \in raised :
                            lastD.response.response.body = r.err

\* a query whose first candidate is kept and whose second candidate raises
\* a Deserialization error
C28_Witness ==
    /\ QueryReachesCandidates
    /\ Candidates(lastD) = {1, 2}
    /\ Raised(lastD, 1) = {}
    /\ Raised(lastD, 2) = {Err("Deserialization", NameAFoo)}
    /\ lastD.response.response = ErrorContent("Deserialization", NameAFoo)

\* the content of the response that outcome o of a handler is turned into
ContentOf(o) ==
    IF o.res.ok THEN o.res.val.response
    ELSE [kind |-> "Error", body |-> o.res.err]

\* the entities a response lists, or the response itself when it is an Error
Listing(content) ==
    CASE content.kind = "QueryEntities" ->
            [k \in 1..Len(content.body) |-> content.body[k].entity]
      [] content.kind = "GetEntity" -> <<content.body.entity>>
      [] OTHER -> content

\* the request of dispatch d with no required component
WithoutRequired(d) ==
    [d.request EXCEPT !.data.components = <<>>]

AnsweredQuery ==
    /\ Dispatches
    /\ lastD.request.kind \in {"GetEntity", "QueryEntities"}
    /\ ~lastD.panicked

\* C29: a query whose components are the single element "*" is in wildcard
\* mode: it requires no component, so it lists the entities (or fails with
\* the error) of the same request with no components, and "*" is not
\* resolved.  In every other list that contains "*" the token is a name like
\* the others: the request fails with the first resolution error among its
\* names, "*" being the name of no component
C29_WildcardIsTheSingleStar ==
    AnsweredQuery =>
        LET data == lastD.request.data
            content == lastD.response.response
        IN  /\ data.components = <<NameStar>> =>
                /\ Listing(content) =
                      Listing(ContentOf(process_request(lastD.before,
                          lastD.cache, lastD.fmt, WithoutRequired(lastD))))
                /\ content # ErrorContent("ComponentNotFound", NameStar)
            /\ (NameStar \in Range(data.components)
                    /\ Len(data.components) # 1) =>
                /\ content.kind = "Error"
                /\ content.body =
                      resolve_names(cache,
                          data.components \o data.optional \o data.has
                              \o lastD.request.filter.with
                              \o lastD.request.filter.without
                              \o BrpPredicate_iter(lastD.request.filter.when),
                          1).err
                /\ \A n \in Range(data.components) \ {NameStar} :
                      component_by_name(cache, n).ok =>
                          content = ErrorContent("ComponentNotFound", NameStar)

\* the list ["a::Foo", "*"] answered ComponentNotFound("*") with entities in
\* the world
C29_Witness ==
    /\ AnsweredQuery
    /\ lastD.request.kind = "QueryEntities"
    /\ lastD.request.data.components = <<NameAFoo, NameStar>>
    /\ lastD.before.ents # << >>
    /\ lastD.response.response = ErrorContent("ComponentNotFound", NameStar)

\* the serialized values of one query result: its components and the
\* optional ones that are Some
ResultValues(result) ==
    {result.components[n] : n \in DOMAIN result.components}
        \cup UNION {Range(result.optional[n]) : n \in DOMAIN result.optional}

\* every serialized value in the content of a response
SerializedValues(content) ==
    CASE content.kind = "GetEntity" -> ResultValues(content.body)
      [] content.kind = "QueryEntities" ->
            UNION {ResultValues(content.body[k]) :
                      k \in 1..Len(content.body)}
      [] content.kind = "GetAsset" ->
            {content.body.handle, content.body.asset}
      [] OTHER -> {}

\* C30: every serialized value in the response to a request of a session of
\* format F is tagged F or is Unserializable, for GetEntity, QueryEntities
\* and GetAsset alike
C30_ResponseValuesInSessionFormat ==
    (Dispatches /\ ~lastD.panicked) =>
        \A v \in SerializedValues(lastD.response.response) :
            v.tag \in {lastD.fmt, "Unserializable"}

\* the sessions of ss without those labelled label, in the order of ss
WithoutLabel(ss, label) ==
    LET keep(session) == session.label # label
    IN  SelectSeq(ss, keep)

IsPrefix(q1, q2) == Len(q1) <= Len(q2) /\ SubSeq(q2, 1, Len(q1)) = q1

\* the channels handed out by an open whose session is no longer registered
ClosedChannels == {ch \in 1..nextCh : ~Registered(ch)}

\* the last registry operation was a successful close: the registry is the
\* one before it without the session of that label, the others in order
CloseRemovesItsSession ==
    (lastOp.op = "close" /\ lastOp.ok) =>
        /\ lastOp.label \in SessionLabels(lastOp.before)
        /\ sessions = WithoutLabel(lastOp.before, lastOp.label)
        /\ Len(sessions) = Len(lastOp.before) - 1

\* this step is the open of the label that the last registry operation, a
\* successful close, removed
ReopensClosedLabel ==
    /\ lastOp.op = "close" /\ lastOp.ok
    /\ lastOp'.op = "open" /\ lastOp'.label = lastOp.label

InsertsAnsweredOk ==
    {u \in 1..Len(sent) :
        /\ sent[u].request.kind = "InsertComponent"
        /\ \E ch \in Channels : \E k \in 1..Len(Responses(ch)) :
              /\ Responses(ch)[k].uid = u
              /\ Responses(ch)[k].response.response.kind = "Ok"}

\* world w has every component of the InsertComponent request on its entity,
\* with the value of the payload
HasMutation(w, request) ==
    /\ request.entity \in DOMAIN w.ents
    /\ \A k \in 1..Len(request.components) :
          LET cid == ResolveByPrecedence(request.components[k][1]).val
          IN  /\ cid \in DOMAIN w.ents[request.entity]
              /\ w.ents[request.entity][cid]
                    = PayloadValue(request.components[k][2])

C33_FailedInsertLeavesWorld ==
    (Dispatches /\ lastD.request.kind = "InsertComponent"
        /\ ~lastD.panicked
        /\ lastD.response.response.kind = "Error") =>
            /\ lastD.after = lastD.before
            /\ world = lastD.before

\* the entries of a name-to-value map in the opposite iteration order
Reversed(entries) ==
    [k \in 1..Len(entries) |-> entries[Len(entries) + 1 - k]]

\* the request with the entries of its maps (the components of an insert,
\* the entries of an Eq under `when`) iterated in the opposite order
OtherOrder(request) ==
    [request EXCEPT
        !.components = Reversed(@),
        !.filter.when = IF @.op = "PartialEq"
                        THEN [@ EXCEPT !.map = Reversed(@)] ELSE @]

\* outcome o of a handler is what dispatch d observed: the same panic, or the
\* same response content and the same world
SameOutcome(d, o) ==
    IF d.panicked \/ IsPanic(o.res) THEN d.panicked /\ IsPanic(o.res)
    ELSE /\ d.response.response.kind = ContentOf(o).kind
         /\ d.response.response = ContentOf(o)
         /\ d.after = o.world

\* C34: the response to a request and the world it leaves are the same for
\* every iteration order of the request's name-to-value maps
C34_MapOrderDoesNotMatter ==
    Dispatches =>
        SameOutcome(lastD,
            process_request(lastD.before, lastD.cache, lastD.fmt,
                            OtherOrder(lastD.request)))

\* this step is a registry operation (the ghost lastOp records each one)
RegistryOperation == lastOp' # lastOp

\* C35: a failed open or close leaves the registry usable: the sessions are
\* as before the failure, the tick system still starts its pass over them,
\* and an open of a free label or a close of a registered label succeeds
\* whatever operation failed before
C35_FailedOperationLeavesRegistryUsable ==
    [][/\ (RegistryOperation /\ ~lastOp'.ok) => sessions' = sessions
       /\ (RegistryOperation /\ lastOp'.op = "open"
             /\ lastOp'.label \notin SessionLabels(sessions)) => lastOp'.ok
       /\ (RegistryOperation /\ lastOp'.op = "close"
             /\ lastOp'.label \in SessionLabels(sessions)) => lastOp'.ok
       /\ (pass = 0 /\ ~crashed) => ~crashed']_vars

(***************************************************************************)
(* SpecEnds: one transport that opens, sends, drops its channel ends and   *)
(* closes, against the tick system's pass                                  *)
(***************************************************************************)
EndsLabel == "A"

EndsRequests == {SimpleRequest(1, "Ping")}

\* the transport drops one of the channel ends it got from open
Drop(ch, end) ==
    /\ ~crashed
    /\ ch \in 1..nextCh
    /\ end \in ends[ch]
    /\ ends' = [ends EXCEPT ![ch] = @ \ {end}]
    /\ UNCHANGED <<world, cache, sessions, nextCh, reqQ, respQ, poisoned,
                   crashed, pass, sent, delivered, pending0, lastD, lastOp,
                   lastLookup, http, lastInsert, wasm>>

NextEnds ==
    \/ \E fmt \in SessionFormats : Open(EndsLabel, fmt)
    \/ Close(EndsLabel)
    \/ \E ch \in 1..MaxCh : \E request \in EndsRequests : Send(ch, request)
    \/ \E ch \in 1..MaxCh : Recv(ch)
    \/ \E ch \in 1..MaxCh : \E end \in AllEnds : Drop(ch, end)
    \/ TickStart
    \/ DispatchOne
    \/ SessionEmpty

SpecEnds == Init /\ [][NextEnds]_vars

\* C36: while the pass is at a registered session, try_recv on its request
\* channel does not give Disconnected and send on its response channel does
\* not fail, whatever ends the transport has dropped: the branches of the
\* loop that panic on a disconnected channel are not taken
C36_ChannelsStayConnected ==
    /\ \A i \in 1..Len(sessions) :
          /\ ~try_recv_disconnected(sessions, ends, reqQ, sessions[i].ch)
          /\ ~send_disconnected(sessions, ends, sessions[i].ch)
    /\ crashed => poisoned

\* the pass is at a session whose transport has dropped all four ends, with
\* a request still in its channel and a response pushed before
C36_Witness ==
    /\ pass >= 1
    /\ ends[sessions[pass].ch] = {}
    /\ reqQ[sessions[pass].ch] # <<>>
    /\ respQ[sessions[pass].ch] # <<>>

\* no HTTP request is in flight: no handler holds a request, none is in the
\* request channel and the dispatch pass is over
HttpQuiet ==
    /\ \A i \in Handlers : Handler(i).pc \in {"idle", "returned"}
    /\ reqQ[HttpCh] = <<>>
    /\ pass = 0

\* C37: the HTTP session's response queue does not accumulate responses:
\* once no HTTP request is in flight the response queue is empty, also after
\* handlers have timed out
C37_ResponseQueueIsDrained ==
    HttpQuiet => respQ[HttpCh] = <<>>

(***************************************************************************)
(* SpecWasm: sendRequest and process_brp_responses of the WASM transport   *)
(***************************************************************************)
MaxPromises == 3     \* sendRequest calls in all

WasmLabel == "WASM"

WasmCh == 1

\* what JavaScript passes to sendRequest: requests with a fresh id, with an
\* id that is reused, with no id (serde's default 0), and a value that is no
\* BrpRequest
Malformed == SimpleRequest(0, "malformed")

WasmInputs ==
    { SimpleRequest(0, "Ping"),
      SimpleRequest(1, "Ping"),
      GetEntity(0, 3, NoData, NoFilter),
      GetEntity(2, 1, NoData, NoFilter),
      Malformed }

\* a promise made by sendRequest: the id of its request, whether the request
\* entered the channel, how often its callbacks were called, and the
\* response or rejection it was settled with
Promise(id, enqueued, settled, outcome, by) ==
    [id |-> id, enqueued |-> enqueued, settled |-> settled,
     outcome |-> outcome, by |-> by]

InitWasm ==
    /\ world = World0
    /\ cache = EmptyCache
    /\ lastLookup = NoLookup
    /\ lastD = NoDispatch
    /\ lastInsert = NoInsert
    /\ sessions = <<RemoteSession(WasmLabel, "Json", WasmCh)>>
    /\ nextCh = 1
    /\ reqQ = [ch \in 1..MaxCh |-> <<>>]
    /\ respQ = [ch \in 1..MaxCh |-> <<>>]
    /\ poisoned = FALSE
    /\ crashed = FALSE
    /\ pass = 0
    /\ sent = <<>>
    /\ delivered = [ch \in 1..MaxCh |-> <<>>]
    /\ pending0 = {}
    /\ lastOp = NoOp
    /\ http = HttpIdle
    /\ ends = HeldEnds(1)
    /\ wasm = WasmIdle

\* the executor of the promise of send_request: a value that is no BrpRequest
\* rejects at once; else the request is sent and the callbacks are inserted
\* under its id
send_request(t, input) ==
    IF input = Malformed
    THEN [t EXCEPT !.promises =
            Append(@, Promise(0, FALSE, 1, "rejected", 0))]
    ELSE [t EXCEPT
            !.promises = Append(@, Promise(input.id, TRUE, 0, "pending", 0)),
            !.callbacks = Put(@, input.id, Len(t.promises) + 1)]

WasmSendRequest(input) ==
    /\ ~crashed
    /\ Len(wasm.promises) < MaxPromises
    /\ wasm' = send_request(wasm, input)
    /\ IF input = Malformed THEN UNCHANGED <<reqQ, sent>>
       ELSE /\ reqQ' = [reqQ EXCEPT ![WasmCh] =
                          Append(@, [uid |-> Len(sent) + 1, request |-> input])]
            /\ sent' = Append(sent, [ch |-> WasmCh, request |-> input])
    /\ UNCHANGED <<world, cache, sessions, nextCh, respQ, poisoned, crashed,
                   pass, delivered, pending0, lastD, lastOp, lastLookup,
                   http, lastInsert, ends>>

\* HashMap::remove
RemoveKey(f, k) == [x \in DOMAIN f \ {k} |-> f[x]]

\* the loop of process_brp_responses over the responses q drained from the
\* channel: a response whose id has callbacks settles that promise and
\* removes the callbacks; a response whose id has none is dropped
RECURSIVE process_brp_responses(_, _)
process_brp_responses(t, q) ==
    IF q = <<>> THEN t
    ELSE LET m == Head(q)
             id == m.response.id
         IN  IF id \in DOMAIN t.callbacks
             THEN process_brp_responses(
                    [t EXCEPT
                        !.callbacks = RemoveKey(@, id),
                        !.promises[t.callbacks[id]] =
                            [@ EXCEPT
                                !.settled = @ + 1,
                                !.outcome =
                                    IF m.response.response.kind = "Error"
                                    THEN "rejected" ELSE "resolved",
                                !.by = m.uid]],
                    Tail(q))
             ELSE process_brp_responses(
                    [t EXCEPT !.discarded = @ + 1], Tail(q))

\* the system process_brp_responses of the Remote schedule
WasmProcessResponses ==
    /\ ~crashed /\ pass = 0
    /\ respQ[WasmCh] # <<>>
    /\ wasm' = process_brp_responses(wasm, respQ[WasmCh])
    /\ delivered' = [delivered EXCEPT ![WasmCh] = @ \o respQ[WasmCh]]
    /\ respQ' = [respQ EXCEPT ![WasmCh] = <<>>]
    /\ UNCHANGED <<world, cache, sessions, nextCh, reqQ, poisoned, crashed,
                   pass, sent, pending0, lastD, lastOp, lastLookup,
                   http, lastInsert, ends>>

NextWasm ==
    \/ \E input \in WasmInputs : WasmSendRequest(input)
    \/ WasmProcessResponses
    \/ TickStart
    \/ DispatchOne
    \/ SessionEmpty

SpecWasm == InitWasm /\ [][NextWasm]_vars

\* nothing of the WASM session is in flight: both channels are empty and the
\* dispatch pass is over
WasmQuiet ==
    /\ reqQ[WasmCh] = <<>>
    /\ respQ[WasmCh] = <<>>
    /\ pass = 0

\* promise k was settled by the response to its own request
SettledByOwnResponse(k) ==
    LET promise == wasm.promises[k]
    IN  /\ promise.settled = 1
        /\ promise.by \in DOMAIN sent
        /\ Cardinality({j \in 1..k : wasm.promises[j].enqueued}) = promise.by
        /\ \E n \in 1..Len(delivered[WasmCh]) :
              /\ delivered[WasmCh][n].uid = promise.by
              /\ delivered[WasmCh][n].response.id = promise.id
              /\ promise.outcome =
                    IF delivered[WasmCh][n].response.response.kind = "Error"
                    THEN "rejected" ELSE "resolved"

\* C38: no promise is settled twice and no drained response is dropped
\* without settling a promise; once nothing is in flight, every promise whose
\* request was enqueued has been settled once by the response to its own
\* request, rejected for an Error and resolved otherwise, also when ids are
\* reused or omitted
C38_EveryPromiseSettledOnce ==
    /\ \A k \in 1..Len(wasm.promises) : wasm.promises[k].settled <= 1
    /\ wasm.discarded = 0
    /\ WasmQuiet =>
          \A k \in 1..Len(wasm.promises) :
              wasm.promises[k].enqueued => SettledByOwnResponse(k)

(***************************************************************************)
(* SpecIsolation: two sessions of different formats served by one pass     *)
(***************************************************************************)
\* the requests both transports send, all under the same id: every
\* read-only kind with a request that succeeds and one that fails, and an
\* insert
IsolationRequests ==
    { SimpleRequest(1, "Ping"),
      GetEntity(1, 1, BrpQueryData(<<NameAFoo>>, <<>>, <<>>), NoFilter),
      GetEntity(1, 3, NoData, NoFilter),
      QueryEntities(1, BrpQueryData(<<NameAFoo>>, <<>>, <<>>), NoFilter),
      QueryEntities(1, BrpQueryData(<<NameNope>>, <<>>, <<>>), NoFilter),
      GetAsset(1, NameHandle, JsonValue(0)),
      GetAsset(1, NameNope, JsonValue(0)),
      InsertComponent(1, 2, << <<NameAFoo, JsonValue(1)>> >>) }

\* session A of format Json and session B of format Ron, both open
InitIsolation ==
    /\ world = World0
    /\ cache = EmptyCache
    /\ lastLookup = NoLookup
    /\ lastD = NoDispatch
    /\ lastInsert = NoInsert
    /\ sessions = <<RemoteSession("A", "Json", 1), RemoteSession("B", "Ron", 2)>>
    /\ nextCh = 2
    /\ reqQ = [ch \in 1..MaxCh |-> <<>>]
    /\ respQ = [ch \in 1..MaxCh |-> <<>>]
    /\ poisoned = FALSE
    /\ crashed = FALSE
    /\ pass = 0
    /\ sent = <<>>
    /\ delivered = [ch \in 1..MaxCh |-> <<>>]
    /\ pending0 = {}
    /\ lastOp = NoOp
    /\ http = HttpIdle
    /\ wasm = WasmIdle
    /\ ends = HeldEnds(2)

NextIsolation ==
    \/ \E ch \in 1..MaxCh : \E request \in IsolationRequests :
            Send(ch, request)
    \/ \E ch \in 1..MaxCh : Recv(ch)
    \/ TickStart
    \/ DispatchOne
    \/ SessionEmpty

SpecIsolation == InitIsolation /\ [][NextIsolation]_vars

ReadOnlyKinds == {"Ping", "GetEntity", "QueryEntities", "GetAsset"}

\* this step takes a request off the request channel ch
Drains(ch) == Len(reqQ'[ch]) < Len(reqQ[ch])

\* C39: the step that dispatches a Ping, GetEntity, QueryEntities or GetAsset
\* request of a session, answered with a success or with an Error, leaves
\* the entities, their components and values and the assets as they were,
\* leaves the registry as it was, and leaves both queues of every other
\* session as they were
C39_ReadOnlyRequestsChangeNothing ==
    [][\A ch \in Channels :
          (Drains(ch) /\ Head(reqQ[ch]).request.kind \in ReadOnlyKinds) =>
              /\ world' = world
              /\ sessions' = sessions
              /\ \A other \in Channels \ {ch} :
                    /\ reqQ'[other] = reqQ[other]
                    /\ respQ'[other] = respQ[other]]_vars

\* a GetAsset request of one session was just answered with the asset, on a
\* world an insert had changed, while the other session had a request
\* waiting and a response not yet taken
C39_Witness ==
    /\ world # World0
    /\ Dispatches
    /\ pass >= 1
    /\ lastD.request.kind = "GetAsset"
    /\ lastD.response.response.kind = "GetAsset"
    /\ lastD.before = world
    /\ respQ[lastD.ch] # <<>>
    /\ \E other \in Channels \ {lastD.ch} :
          /\ reqQ[other] # <<>>
          /\ respQ[other] # <<>>

\* the session registered for channel pair ch
SessionOf(ch) ==
    sessions[CHOOSE i \in 1..Len(sessions) : sessions[i].ch = ch]

\* the response m, found on channel pair ch, answers a request of ch
OnItsOwnChannel(ch, m) ==
    /\ sent[m.uid].ch = ch
    /\ \A other \in Channels \ {ch} : \A k \in 1..Len(Responses(other)) :
          Responses(other)[k].uid # m.uid

\* C40: every response on the response queue of a session S, or taken from
\* it, answers a request that was sent on S's request queue, is on no other
\* session's queue, and carries only values serialized in S's format, also
\* when the sessions use the same request ids
C40_SessionsAreIsolated ==
    \A ch \in Channels : \A k \in 1..Len(Responses(ch)) :
        LET m == Responses(ch)[k]
        IN  /\ OnItsOwnChannel(ch, m)
            /\ \A v \in SerializedValues(m.response.response) :
                  v.tag \in {SessionOf(ch).serialization_format,
                             "Unserializable"}

====
